---- MODULE Spec2Model ----
(***************************************************************************)
(* Staged ingestion-and-detection pipeline of product-line-monitor:        *)
(* webhook ingest -> batch-sensor-data queue -> sensor-data queue ->       *)
(* anomaly-detection queue, over the event store (sensor_events,           *)
(* anomalies, equipment) and the BullMQ job life cycle.                    *)
(*                                                                         *)
(* Time is counted in seconds.  Sensor values are integers; the detector's *)
(* statistics are kept as exact fractions so that every comparison the     *)
(* code makes on doubles is decided exactly.                               *)
(***************************************************************************)
EXTENDS Integers, Sequences, FiniteSets, TLC

VARIABLES
  jobs,          \* queue name -> (job id -> job)
  sensorEvents,  \* the rows of table sensor_events
  anomalies,     \* the rows of table anomalies
  equipment,     \* equipment id -> [status, lastHeartbeat]
  now,           \* the wall clock, in seconds
  failures,      \* number of store / broker operations that have failed
  responses,     \* answers of the webhook, in order
  api,           \* the status and alert requests: the one in flight, the answers
  probe          \* a call of the detector on its own: its arguments and result

vars == <<jobs, sensorEvents, anomalies, equipment, now, failures, responses, api, probe>>

-----------------------------------------------------------------------------
(* Configuration and bounds *)

\* defaultJobOptions.attempts
Attempts == 3

\* defaultJobOptions.backoff.delay (2000 ms)
BackoffDelaySec == 2

\* ANOMALY_THRESHOLD_SIGMA, default 3
AnomalyThresholdSigma == 3

\* ROLLING_WINDOW_SIZE as configured for the checked runs (default 100)
RollingWindowSize == 11

\* Worker concurrency of the three stages
BatchConcurrency == 3
SensorConcurrency == 10
DetectionConcurrency == 5

\* How many store / broker calls fail in one run over a single reading
MaxFailures == 3

\* The clock runs freely up to here (and further only while a retry waits)
MaxNow == 0

\* Readings per ingested batch, and batches per run
MaxBatchLen == 2
MaxBatches == 1

BATCH == "batch-sensor-data"
SENSOR == "sensor-data"
DETECT == "anomaly-detection"
QueueNames == {BATCH, SENSOR, DETECT}

EquipmentStatus == {"ONLINE", "OFFLINE", "ANOMALY", "MAINTENANCE"}
AnomalySeverity == {"LOW", "MEDIUM", "CRITICAL"}
EquipmentIds == {"e1", "e2"}

\* The status equipment e1 may have when the run starts
InitialStatus == {"ONLINE", "MAINTENANCE"}

NoTimestamp == -1000
NoSeverity == "none"

\* What a client may send: a normal reading and a spike of the sensor with an
\* established history (the spike without a timestamp of its own), a reading
\* of a sensor that has next to no history, and a reading of an equipment
\* the store does not know
Readings ==
  { [equipmentId |-> "e1", sensorType |-> "TEMPERATURE", value |-> 0,
     unit |-> "celsius", timestamp |-> 1],
    [equipmentId |-> "e1", sensorType |-> "TEMPERATURE", value |-> 10,
     unit |-> "celsius", timestamp |-> NoTimestamp],
    [equipmentId |-> "e1", sensorType |-> "VIBRATION", value |-> 10,
     unit |-> "hz", timestamp |-> 1],
    [equipmentId |-> "e9", sensorType |-> "TEMPERATURE", value |-> 0,
     unit |-> "celsius", timestamp |-> 1] }

RECURSIVE SeqsUpTo(_, _)
SeqsUpTo(S, n) ==
  IF n = 0 THEN {<<>>}
  ELSE LET shorter == SeqsUpTo(S, n - 1)
       IN shorter \cup {Append(s, x) : s \in {t \in shorter : Len(t) = n - 1}, x \in S}

Batches == {b \in SeqsUpTo(Readings, MaxBatchLen) : Len(b) >= 1}

-----------------------------------------------------------------------------
(* Helpers *)

Range(s) == {s[i] : i \in DOMAIN s}

RECURSIVE SumOver(_, _)
SumOver(S, f) ==
  IF S = {} THEN 0
  ELSE LET x == CHOOSE y \in S : TRUE
       IN f[x] + SumOver(S \ {x}, f)

RECURSIVE Pow2(_)
Pow2(n) == IF n <= 0 THEN 1 ELSE 2 * Pow2(n - 1)

Abs(x) == IF x < 0 THEN -x ELSE x

RECURSIVE Gcd(_, _)
Gcd(a, b) == IF b = 0 THEN a ELSE Gcd(b, a % b)

\* The fraction n/d (d > 0) in lowest terms
Frac(n, d) ==
  LET g == Gcd(Abs(n), d)
  IN IF g = 0 THEN [num |-> 0, den |-> 1] ELSE [num |-> n \div g, den |-> d \div g]

Sign(x) == IF x > 0 THEN 1 ELSE IF x < 0 THEN -1 ELSE 0

SeqSum(s) == SumOver(DOMAIN s, s)

-----------------------------------------------------------------------------
(* Statistical detector (core/anomaly-detection.ts)                        *)
(*   a mean is a fraction [num, den];                                      *)
(*   a standard deviation is the square root of the fraction [num, den];   *)
(*   a Z-score is sign * sqrt(sqNum / sqDen).                              *)

ZeroScore == [sign |-> 0, sqNum |-> 0, sqDen |-> 1]

calculateMean(values) ==
  IF Len(values) = 0 THEN [num |-> 0, den |-> 1]
  ELSE Frac(SeqSum(values), Len(values))

calculateStandardDeviation(values, mean) ==
  IF Len(values) = 0 THEN [num |-> 0, den |-> 1]
  ELSE LET squaredDiffs == [i \in DOMAIN values |->
                              (values[i] * mean.den - mean.num) * (values[i] * mean.den - mean.num)]
           \* sum of squaredDiffs / (mean.den^2 * length), reduced in two steps
           perDen == Frac(SeqSum(squaredDiffs), mean.den * mean.den)
       IN Frac(perDen.num, perDen.den * Len(values))

calculateZScore(value, mean, stdDev) ==
  IF stdDev.num = 0 THEN ZeroScore
  ELSE LET diff == value * mean.den - mean.num        \* (value - mean) * mean.den
           a == Frac(diff * diff, mean.den * mean.den) \* (value - mean)^2
           x == Frac(a.num, stdDev.num)                \* cross-reduced product
           y == Frac(stdDev.den, a.den)                \* a * (1 / stdDev^2)
       IN [sign |-> Sign(diff), sqNum |-> x.num * y.num, sqDen |-> x.den * y.den]

\* Math.abs(zScore) > t, for a whole number t >= 0
AbsGreater(zScore, t) == zScore.sqNum > t * t * zScore.sqDen

isOutlier(zScore, threshold) == AbsGreater(zScore, threshold)

classifySeverity(zScore) ==
  IF AbsGreater(zScore, 5) THEN "CRITICAL"
  ELSE IF AbsGreater(zScore, 4) THEN "MEDIUM"
  ELSE "LOW"

generateDescription(sensorType, value, mean, zScore, unit) ==
  [kind |-> "deviation", sensorType |-> sensorType, value |-> value,
   direction |-> IF value * mean.den > mean.num THEN "above" ELSE "below",
   absZScore |-> [sqNum |-> zScore.sqNum, sqDen |-> zScore.sqDen],
   unit |-> unit, mean |-> mean]

\* AnomalyDetector.detect of a detector built with (threshold, minWindowSize)
detect(threshold, minWindowSize, value, historicalValues, sensorType, unit) ==
  IF Len(historicalValues) < minWindowSize
  THEN [isAnomaly |-> FALSE, zScore |-> ZeroScore,
        mean |-> [num |-> 0, den |-> 1], stdDev |-> [num |-> 0, den |-> 1],
        threshold |-> threshold, severity |-> NoSeverity,
        description |-> [kind |-> "insufficient", have |-> Len(historicalValues),
                         required |-> minWindowSize]]
  ELSE LET mean == calculateMean(historicalValues)
           stdDev == calculateStandardDeviation(historicalValues, mean)
           zScore == calculateZScore(value, mean, stdDev)
           isAnomaly == isOutlier(zScore, threshold)
       IN [isAnomaly |-> isAnomaly, zScore |-> zScore, mean |-> mean,
           stdDev |-> stdDev, threshold |-> threshold,
           severity |-> IF isAnomaly THEN classifySeverity(zScore) ELSE NoSeverity,
           description |-> IF isAnomaly
                           THEN generateDescription(sensorType, value, mean, zScore, unit)
                           ELSE [kind |-> "none"]]

\* The process-wide detector instance: new AnomalyDetector(
\*   Number(ANOMALY_THRESHOLD_SIGMA) || 3, Number(ROLLING_WINDOW_SIZE) || 100)
DetectorThreshold == AnomalyThresholdSigma
DetectorMinWindowSize == RollingWindowSize

anomalyDetector_detect(value, historicalValues, sensorType, unit) ==
  detect(DetectorThreshold, DetectorMinWindowSize, value, historicalValues, sensorType, unit)

-----------------------------------------------------------------------------
(* Event store.  A table is the set of its rows; `by` names the job attempt *)
(* that wrote a row and `origin` the submitted reading it stems from (both  *)
(* stand for the row's generated id and are read by no operation).          *)

Seed(i) == [job |-> [batch |-> 0, attempt |-> 0, add |-> i], attempt |-> 0]

\* History established before the run: rows of ("e1", TEMPERATURE), one second
\* apart, all before time 0; the oldest reads 1, the rest 0.
BaselineRow(i, len) ==
  [time |-> i - len - 1, equipmentId |-> "e1", sensorType |-> "TEMPERATURE",
   measuredValue |-> IF i = 1 THEN 1 ELSE 0, unit |-> "celsius",
   by |-> Seed(i), origin |-> [batch |-> 0, pos |-> i]]

\* Rows of another equipment and of another sensor lie beside them
OtherRows ==
  { [time |-> -1, equipmentId |-> "e2", sensorType |-> "TEMPERATURE",
     measuredValue |-> 10, unit |-> "celsius", by |-> Seed(-1),
     origin |-> [batch |-> 0, pos |-> -1]],
    [time |-> -1, equipmentId |-> "e1", sensorType |-> "VIBRATION",
     measuredValue |-> 10, unit |-> "hz", by |-> Seed(-2),
     origin |-> [batch |-> 0, pos |-> -2]] }

Baseline(len) == {BaselineRow(i, len) : i \in 1..len} \cup OtherRows

\* A create that inserts the row twice
sensorEventCreateTwice(events, data, by, origin) ==
  events \cup
    {[time |-> data.timestamp, equipmentId |-> data.equipmentId,
      sensorType |-> data.sensorType, measuredValue |-> data.value,
      unit |-> data.unit, by |-> [job |-> by.job, attempt |-> a], origin |-> origin] :
       a \in {by.attempt, by.attempt + Attempts}}

\* A create that writes nothing when a row for the same reading is there
sensorEventCreateOnce(events, data, by, origin) ==
  IF \E e \in events : e.origin = origin /\ e.time = data.timestamp
                       /\ e.measuredValue = data.value
  THEN events
  ELSE events \cup
         {[time |-> data.timestamp, equipmentId |-> data.equipmentId,
           sensorType |-> data.sensorType, measuredValue |-> data.value,
           unit |-> data.unit, by |-> by, origin |-> origin]}

\* A create that replaces the row of the same pair and time, if there is one
sensorEventReplace(events, data, by, origin) ==
  {e \in events : ~(/\ e.equipmentId = data.equipmentId
                    /\ e.sensorType = data.sensorType
                    /\ e.time = data.timestamp)}
    \cup
    {[time |-> data.timestamp, equipmentId |-> data.equipmentId,
      sensorType |-> data.sensorType, measuredValue |-> data.value,
      unit |-> data.unit, by |-> by, origin |-> origin]}

\* SensorEventRepository.create: one new row
sensorEventCreate(events, data, by, origin) ==
  events \cup
    {[time |-> data.timestamp, equipmentId |-> data.equipmentId,
      sensorType |-> data.sensorType, measuredValue |-> data.value,
      unit |-> data.unit, by |-> by, origin |-> origin]}

\* The rows findMany({where: {equipmentId, sensorType}}) selects
Matching(events, equipmentId, sensorType) ==
  {e \in events : e.equipmentId = equipmentId /\ e.sensorType = sensorType}

\* A window query that leaves the sensor type out of its where clause
RollingWindowsAnySensor(events, equipmentId, sensorType, windowSize) ==
  LET F == {e \in events : e.equipmentId = equipmentId}
      NotOlder(e) == {f \in F : f.time >= e.time}
      Newer(e) == {f \in F : f.time > e.time}
      sure == {e \in F : Cardinality(NotOlder(e)) <= windowSize}
      maybe == {e \in F \ sure : Cardinality(Newer(e)) < windowSize}
      take == IF Cardinality(F) < windowSize THEN Cardinality(F) ELSE windowSize
  IN {sure \cup T : T \in {U \in SUBSET maybe :
                             Cardinality(U) = take - Cardinality(sure)}}

\* A window query that sees only the rows written before the run began
RollingWindowsOfHistory(events, equipmentId, sensorType, windowSize) ==
  LET F == {e \in events : /\ e.equipmentId = equipmentId /\ e.sensorType = sensorType
                           /\ e.origin.batch = 0}
      NotOlder(e) == {f \in F : f.time >= e.time}
      Newer(e) == {f \in F : f.time > e.time}
      sure == {e \in F : Cardinality(NotOlder(e)) <= windowSize}
      maybe == {e \in F \ sure : Cardinality(Newer(e)) < windowSize}
      take == IF Cardinality(F) < windowSize THEN Cardinality(F) ELSE windowSize
  IN {sure \cup T : T \in {U \in SUBSET maybe :
                             Cardinality(U) = take - Cardinality(sure)}}

\* SensorEventRepository.getRollingWindow: orderBy time desc, take windowSize.
\* Rows of equal time have no defined order, so every choice among the rows
\* that tie at the cut is a possible answer.
RollingWindows(events, equipmentId, sensorType, windowSize) ==
  LET F == Matching(events, equipmentId, sensorType)
      NotOlder(e) == {f \in F : f.time >= e.time}
      Newer(e) == {f \in F : f.time > e.time}
      sure == {e \in F : Cardinality(NotOlder(e)) <= windowSize}
      maybe == {e \in F \ sure : Cardinality(Newer(e)) < windowSize}
      take == IF Cardinality(F) < windowSize THEN Cardinality(F) ELSE windowSize
  IN {sure \cup T : T \in {U \in SUBSET maybe :
                             Cardinality(U) = take - Cardinality(sure)}}

\* historicalReadings.map(reading => reading.measuredValue)
RECURSIVE WindowValues(_)
WindowValues(W) ==
  IF W = {} THEN <<>>
  ELSE LET newest == {e \in W : \A f \in W : e.time >= f.time}
           e == CHOOSE x \in newest : TRUE
       IN <<e.measuredValue>> \o WindowValues(W \ {e})

\* A recordAnomaly that merges into an unresolved row of the same pair
upsertAnomaly(rows, equipmentId, sensorType, value, detection, timestamp, by) ==
  IF \E r \in rows : r.equipmentId = equipmentId /\ r.sensorType = sensorType /\ ~r.resolved
  THEN rows
  ELSE rows \cup
         {[time |-> timestamp, equipmentId |-> equipmentId, sensorType |-> sensorType,
           severity |-> detection.severity, description |-> detection.description,
           detectedValue |-> value, threshold |-> detection.threshold,
           zScore |-> detection.zScore, resolved |-> FALSE, resolvedAt |-> NoTimestamp,
           by |-> by]}

\* A recordAnomaly that inserts the row as resolved
recordResolvedAnomaly(rows, equipmentId, sensorType, value, detection, timestamp, by) ==
  rows \cup
    {[time |-> timestamp, equipmentId |-> equipmentId, sensorType |-> sensorType,
      severity |-> detection.severity, description |-> detection.description,
      detectedValue |-> value, threshold |-> detection.threshold,
      zScore |-> detection.zScore, resolved |-> TRUE, resolvedAt |-> timestamp,
      by |-> by]}

\* A recordAnomaly that stores the threshold as the value and the value as the
\* threshold
recordAnomalySwapped(rows, equipmentId, sensorType, value, detection, timestamp, by) ==
  rows \cup
    {[time |-> timestamp, equipmentId |-> equipmentId, sensorType |-> sensorType,
      severity |-> detection.severity, description |-> detection.description,
      detectedValue |-> detection.threshold, threshold |-> value,
      zScore |-> detection.zScore, resolved |-> FALSE, resolvedAt |-> NoTimestamp,
      by |-> by]}

\* A recordAnomaly that builds the row and never creates it
recordAnomalyUnsaved(rows, equipmentId, sensorType, value, detection, timestamp, by) == rows

\* AnomalyRepository.create via AnomalyDetectionService.recordAnomaly
recordAnomaly(rows, equipmentId, sensorType, value, detection, timestamp, by) ==
  rows \cup
    {[time |-> timestamp, equipmentId |-> equipmentId, sensorType |-> sensorType,
      severity |-> detection.severity, description |-> detection.description,
      detectedValue |-> value, threshold |-> detection.threshold,
      zScore |-> detection.zScore, resolved |-> FALSE, resolvedAt |-> NoTimestamp,
      by |-> by]}

\* A store without the foreign key on sensor_events.equipmentId
EquipmentUnchecked(eq, id) == TRUE

\* A row of table equipment; name, type and location are given to it when it
\* is provisioned
EquipmentRow(id, status, lastHeartbeat) ==
  [name |-> id, type |-> "machine", location |-> "line 1",
   status |-> status, lastHeartbeat |-> lastHeartbeat]

\* sensor_events_equipmentId_fkey: a row must reference a row of equipment
EquipmentKnown(eq, id) == id \in DOMAIN eq

\* A heartbeat update that also marks the equipment ONLINE
updateHeartbeatOnline(eq, id, heartbeat) ==
  [eq EXCEPT ![id].status = "ONLINE", ![id].lastHeartbeat = heartbeat]

\* EquipmentRepository.update(id, {lastHeartbeat})
updateHeartbeat(eq, id, heartbeat) ==
  [eq EXCEPT ![id].lastHeartbeat = heartbeat]

\* EquipmentRepository.updateStatus(id, status): status and lastHeartbeat = new Date()
updateStatus(eq, id, status, clock) ==
  [eq EXCEPT ![id].status = status, ![id].lastHeartbeat = clock]

-----------------------------------------------------------------------------
(* Job broker (BullMQ queues and workers, workers/queue.ts)                *)
(*   state: waiting | active | delayed | completed | failed                *)
(*   step: the handler's position while the job is active (0 otherwise)    *)
(* A job id names the job's provenance:                                     *)
(*   batch-sensor-data  n, the n-th webhook request                          *)
(*   sensor-data        [batch, attempt, add]: the add number `add` issued   *)
(*                      by attempt `attempt` of batch job `batch`            *)
(*   anomaly-detection  [sensor, attempt]: added by attempt `attempt` of     *)
(*                      sensor-data job `sensor`                             *)
(* `origin` names the submitted reading a job stems from, [batch, pos]; it  *)
(* is read by no operation.                                                  *)

NoResult ==
  [isAnomaly |-> FALSE, zScore |-> ZeroScore, mean |-> [num |-> 0, den |-> 1],
   stdDev |-> [num |-> 0, den |-> 1], threshold |-> 0, severity |-> NoSeverity,
   description |-> [kind |-> "notrun"]]

\* Queue.add: a new waiting job
NewJob(data, origin) ==
  [data |-> data, origin |-> origin, state |-> "waiting", attemptsMade |-> 0, step |-> 0,
   processAt |-> 0, stepFailed |-> FALSE,
   detected |-> FALSE, result |-> NoResult]

\* One ceiling, that of sensor-data, for the workers of all queues
SharedConcurrency(q) == SensorConcurrency

Concurrency(q) ==
  IF q = BATCH THEN BatchConcurrency
  ELSE IF q = SENSOR THEN SensorConcurrency
  ELSE DetectionConcurrency

JobIds(q) == DOMAIN jobs[q]

ActiveJobs(q) == {j \in JobIds(q) : jobs[q][j].state = "active"}

\* A backoff of type 'fixed'
FixedBackoff(attemptsMade) == BackoffDelaySec

\* backoff: {type: 'exponential', delay: 2000}
BackoffDelay(attemptsMade) == BackoffDelaySec * Pow2(attemptsMade - 1)

\* attempts counted as retries: one more run than attempts
HasRetriesLeft(job) == job.attemptsMade <= Attempts

\* attempts: 3
HasAttemptsLeft(job) == job.attemptsMade < Attempts

\* A broker that puts a failed job with attempts left straight back to waiting
RetryAtOnce(job, clock) ==
  IF HasAttemptsLeft(job)
  THEN [job EXCEPT !.state = "waiting", !.step = 0, !.stepFailed = TRUE]
  ELSE [job EXCEPT !.state = "failed", !.step = 0, !.stepFailed = TRUE]

\* The job after its handler threw: delayed for a retry, or failed for good
MoveToFailed(job, clock) ==
  IF HasAttemptsLeft(job)
  THEN [job EXCEPT !.state = "delayed", !.step = 0, !.stepFailed = TRUE,
                   !.processAt = clock + BackoffDelay(job.attemptsMade)]
  ELSE [job EXCEPT !.state = "failed", !.step = 0, !.stepFailed = TRUE]

\* The job after its handler returned
MoveToCompleted(job) == [job EXCEPT !.state = "completed", !.step = 0]

\* A catch block that logs the error and returns
SwallowError(job, clock) == MoveToCompleted(job)

\* catch (error) { console.error(...); throw error; } of the three handlers
OnError(job, clock) == MoveToFailed(job, clock)

\* A broker that never promotes a delayed job
NeverDue(job, clock) == FALSE

\* A delayed job is due
IsDue(job, clock) == clock >= job.processAt

\* A worker takes a waiting job: one more attempt starts
Activate(q, j) ==
  /\ jobs[q][j].state = "waiting"
  /\ Cardinality(ActiveJobs(q)) < Concurrency(q)
  /\ jobs' = [jobs EXCEPT ![q][j] =
                [@ EXCEPT !.state = "active", !.attemptsMade = @ + 1, !.step = 1,
                          !.stepFailed = FALSE, !.detected = FALSE, !.result = NoResult]]
  /\ UNCHANGED <<sensorEvents, anomalies, equipment, now, failures, responses, api, probe>>

\* The backoff delay of a delayed job is over
Promote(q, j) ==
  /\ jobs[q][j].state = "delayed"
  /\ IsDue(jobs[q][j], now)
  /\ jobs' = [jobs EXCEPT ![q][j] = [@ EXCEPT !.state = "waiting", !.processAt = 0]]
  /\ UNCHANGED <<sensorEvents, anomalies, equipment, now, failures, responses, api, probe>>

RetryWaits ==
  \E q \in QueueNames : \E j \in JobIds(q) :
    jobs[q][j].state = "delayed" /\ jobs[q][j].processAt > now

Tick ==
  /\ now < MaxNow \/ RetryWaits
  /\ now' = now + BackoffDelaySec
  /\ UNCHANGED <<jobs, sensorEvents, anomalies, equipment, failures, responses, api, probe>>

-----------------------------------------------------------------------------
(* Webhook (api/webhook.controller.ts, ingestSensorData) *)

\* A job data that hands the readings on as they were sent
IngestJobDataAsSent(readings, clock) ==
  [readings |-> [i \in DOMAIN readings |->
     [equipmentId |-> readings[i].equipmentId, sensorType |-> readings[i].sensorType,
      value |-> readings[i].value, unit |-> readings[i].unit,
      timestamp |-> readings[i].timestamp]]]

IngestJobData(readings, clock) ==
  [readings |-> [i \in DOMAIN readings |->
     [equipmentId |-> readings[i].equipmentId, sensorType |-> readings[i].sensorType,
      value |-> readings[i].value, unit |-> readings[i].unit,
      timestamp |-> IF readings[i].timestamp = NoTimestamp THEN clock
                    ELSE readings[i].timestamp]]]

ingestSensorData(readings, ok) ==
  LET id == Len(responses) + 1
  IN /\ Len(responses) < MaxBatches
     /\ IF ok
        THEN /\ jobs' = [jobs EXCEPT ![BATCH] =
                           @ @@ (id :> NewJob(IngestJobData(readings, now),
                                                [batch |-> id, pos |-> 0]))]
             /\ responses' = Append(responses,
                                    [status |-> 202, accepted |-> Len(readings),
                                     jobId |-> id])
             /\ UNCHANGED failures
        ELSE /\ failures' = failures + 1
             /\ responses' = Append(responses,
                                    [status |-> 500, accepted |-> 0, jobId |-> 0])
             /\ UNCHANGED jobs
     /\ UNCHANGED <<sensorEvents, anomalies, equipment, now, api, probe>>

-----------------------------------------------------------------------------
(* Stage 1: workers/batch-sensor-data.worker.ts, processBatchSensorData *)

\* A jobData that leaves the reading's timestamp out
SensorJobDataNoTimestamp(reading) ==
  [equipmentId |-> reading.equipmentId, sensorType |-> reading.sensorType,
   value |-> reading.value, unit |-> reading.unit, timestamp |-> 0]

\* jobData built for one reading of the batch
SensorJobData(reading) ==
  [equipmentId |-> reading.equipmentId, sensorType |-> reading.sensorType,
   value |-> reading.value, unit |-> reading.unit, timestamp |-> reading.timestamp]

\* A split that leaves the last reading of the batch out
SplitJobsDropLast(readings, rejected, batch, attempt) ==
  [id \in {[batch |-> batch, attempt |-> attempt, add |-> p] :
             p \in DOMAIN readings \ (rejected \cup {Len(readings)})}
     |-> NewJob(SensorJobData(readings[id.add]), [batch |-> batch, pos |-> id.add])]

\* A retry that adds only the readings no earlier attempt has added
SplitJobsNotYetAdded(readings, rejected, batch, attempt) ==
  [id \in {[batch |-> batch, attempt |-> attempt, add |-> p] :
             p \in {q \in DOMAIN readings \ rejected :
                      \A s \in DOMAIN jobs[SENSOR] : ~(s.batch = batch /\ s.add = q)}}
     |-> NewJob(SensorJobData(readings[id.add]), [batch |-> batch, pos |-> id.add])]

\* The jobs readings.map(...) adds to sensor-data: one for every position
\* whose sensorDataQueue.add did not reject
SplitJobs(readings, rejected, batch, attempt) ==
  [id \in {[batch |-> batch, attempt |-> attempt, add |-> p] :
             p \in DOMAIN readings \ rejected}
     |-> NewJob(SensorJobData(readings[id.add]), [batch |-> batch, pos |-> id.add])]

\* One attempt of the handler: every add is issued, Promise.all awaits them;
\* the adds in `rejected` fail, the others are not withdrawn.
processBatchSensorData(j, rejected) ==
  LET job == jobs[BATCH][j]
  IN /\ job.state = "active"
     /\ rejected \subseteq DOMAIN job.data.readings
     /\ failures' = failures + Cardinality(rejected)
     /\ jobs' = [jobs EXCEPT
                   ![SENSOR] = @ @@ SplitJobs(job.data.readings, rejected, j,
                                              job.attemptsMade),
                   ![BATCH][j] = IF rejected = {} THEN MoveToCompleted(job)
                                 ELSE OnError(job, now)]
     /\ UNCHANGED <<sensorEvents, anomalies, equipment, now, responses, api, probe>>

-----------------------------------------------------------------------------
(* Stage 2: workers/sensor-data.worker.ts, processSensorData *)

\* The try block with the enqueue moved to the front
EnqueueFirst == <<"enqueue", "create", "heartbeat">>

\* The awaited calls of the try block, in program order
SensorDataSteps == <<"create", "heartbeat", "enqueue">>

\* The job after one awaited call of the handler resolved
AfterStep(job, steps) ==
  IF job.step = Len(steps) THEN MoveToCompleted(job) ELSE [job EXCEPT !.step = @ + 1]

\* An anomalyJobData that carries the stored time instead of the reading's
AnomalyJobDataStale(data) ==
  [equipmentId |-> data.equipmentId, sensorType |-> data.sensorType,
   value |-> data.value, unit |-> data.unit, timestamp |-> data.timestamp + 1]

\* anomalyJobData
AnomalyJobData(data) ==
  [equipmentId |-> data.equipmentId, sensorType |-> data.sensorType,
   value |-> data.value, unit |-> data.unit, timestamp |-> data.timestamp]

SensorStepFails(j) ==
  /\ failures' = failures + 1
  /\ jobs' = [jobs EXCEPT ![SENSOR][j] = OnError(@, now)]
  /\ UNCHANGED <<sensorEvents, anomalies, equipment, now, responses, api, probe>>

\* await sensorEventRepository.create({...})
S2Create(j, ok) ==
  LET job == jobs[SENSOR][j]
  IN /\ job.state = "active"
     /\ SensorDataSteps[job.step] = "create"
     /\ IF ok /\ EquipmentKnown(equipment, job.data.equipmentId)
        THEN /\ sensorEvents' = sensorEventCreate(sensorEvents, job.data,
                                   [job |-> j, attempt |-> job.attemptsMade], job.origin)
             /\ jobs' = [jobs EXCEPT ![SENSOR][j] = AfterStep(@, SensorDataSteps)]
             /\ UNCHANGED <<anomalies, equipment, now, failures, responses, api, probe>>
        ELSE SensorStepFails(j)

\* await equipmentRepository.update(equipmentId, {lastHeartbeat: new Date(timestamp)})
S2Heartbeat(j, ok) ==
  LET job == jobs[SENSOR][j]
  IN /\ job.state = "active"
     /\ SensorDataSteps[job.step] = "heartbeat"
     /\ IF ok
        THEN /\ equipment' = updateHeartbeat(equipment, job.data.equipmentId,
                                             job.data.timestamp)
             /\ jobs' = [jobs EXCEPT ![SENSOR][j] = AfterStep(@, SensorDataSteps)]
             /\ UNCHANGED <<sensorEvents, anomalies, now, failures, responses, api, probe>>
        ELSE SensorStepFails(j)

\* await anomalyDetectionQueue.add('detect-anomaly', anomalyJobData, ...)
S2Enqueue(j, ok) ==
  LET job == jobs[SENSOR][j]
  IN /\ job.state = "active"
     /\ SensorDataSteps[job.step] = "enqueue"
     /\ IF ok
        THEN /\ jobs' = [jobs EXCEPT
                           ![DETECT] = @ @@ ([sensor |-> j, attempt |-> job.attemptsMade]
                                               :> NewJob(AnomalyJobData(job.data), job.origin)),
                           ![SENSOR][j] = AfterStep(@, SensorDataSteps)]
             /\ UNCHANGED <<sensorEvents, anomalies, equipment, now, failures, responses, api, probe>>
        ELSE SensorStepFails(j)

-----------------------------------------------------------------------------
(* Stage 3: workers/anomaly-detection.worker.ts, processAnomalyDetection,  *)
(* which runs AnomalyDetectionService.processSensorReading                 *)
(*   step 1: getRollingWindow and detect                                    *)
(*   step 2: recordAnomaly                                                   *)
(*   step 3: updateStatus(equipmentId, 'ANOMALY')                            *)

\* A guard that records whatever the detector answered
AlwaysRecord(detectionResult) == TRUE

\* if (detectionResult.isAnomaly && detectionResult.severity)
ShouldRecord(detectionResult) ==
  detectionResult.isAnomaly /\ detectionResult.severity # NoSeverity

\* A failing write that is logged and not rethrown
DetectionStepSwallowed(j) ==
  /\ failures' = failures + 1
  /\ jobs' = [jobs EXCEPT ![DETECT][j] = MoveToCompleted(@)]
  /\ UNCHANGED <<sensorEvents, anomalies, equipment, now, responses, api, probe>>

DetectionStepFails(j) ==
  /\ failures' = failures + 1
  /\ jobs' = [jobs EXCEPT ![DETECT][j] = OnError(@, now)]
  /\ UNCHANGED <<sensorEvents, anomalies, equipment, now, responses, api, probe>>

S3Detect(j, ok) ==
  LET job == jobs[DETECT][j]
      d == job.data
  IN /\ job.state = "active"
     /\ job.step = 1
     /\ IF ok
        THEN /\ \E W \in RollingWindows(sensorEvents, d.equipmentId, d.sensorType,
                                        RollingWindowSize) :
                  \E result \in {anomalyDetector_detect(d.value, WindowValues(W),
                                                         d.sensorType, d.unit)} :
                    jobs' = [jobs EXCEPT ![DETECT][j] =
                               IF ShouldRecord(result)
                               THEN [job EXCEPT !.detected = TRUE, !.result = result,
                                                !.step = 2]
                               ELSE MoveToCompleted([job EXCEPT !.detected = TRUE,
                                                                !.result = result])]
             /\ UNCHANGED <<sensorEvents, anomalies, equipment, now, failures, responses, api, probe>>
        ELSE DetectionStepFails(j)

S3Record(j, ok) ==
  LET job == jobs[DETECT][j]
      d == job.data
  IN /\ job.state = "active"
     /\ job.step = 2
     /\ IF ok
        THEN /\ anomalies' = recordAnomaly(anomalies, d.equipmentId, d.sensorType,
                                d.value, job.result, d.timestamp,
                                [job |-> j, attempt |-> job.attemptsMade])
             /\ jobs' = [jobs EXCEPT ![DETECT][j].step = 3]
             /\ UNCHANGED <<sensorEvents, equipment, now, failures, responses, api, probe>>
        ELSE DetectionStepFails(j)

S3Status(j, ok) ==
  LET job == jobs[DETECT][j]
  IN /\ job.state = "active"
     /\ job.step = 3
     /\ IF ok
        THEN /\ equipment' = updateStatus(equipment, job.data.equipmentId, "ANOMALY", now)
             /\ jobs' = [jobs EXCEPT ![DETECT][j] = MoveToCompleted(@)]
             /\ UNCHANGED <<sensorEvents, anomalies, now, failures, responses, api, probe>>
        ELSE DetectionStepFails(j)

-----------------------------------------------------------------------------
(* The status and alert endpoints *)

\* A heartbeat older than this is stale: Date.now() - 30000
HeartbeatStaleSec == 30

\* Status and alert requests served in one run
MaxRequests == 2

\* Idle periods of HeartbeatStaleSec seconds in one run
MaxSleeps == 1

\* The equipment ids asked for: a known one and an unknown one
QueryIds == {"e1", "e9"}

NoQuery == [pc |-> "idle", id |-> "none", status |-> "none"]

NoAnswer == [code |-> 0, status |-> "none"]

\* No request in flight, none answered, no alert resolved, no idle period yet
NoApi == [query |-> NoQuery, answer |-> NoAnswer, resolved |-> {}, requests |-> 0,
          sleeps |-> 0]

\* EquipmentRepository.checkOnlineStatus
checkOnlineStatus(eq, id, clock) ==
  IF id \notin DOMAIN eq THEN FALSE
  ELSE eq[id].lastHeartbeat > clock - HeartbeatStaleSec

\* The answer of a request and the end of its handler
Answer(code, status) ==
  [api EXCEPT !.query = NoQuery, !.answer = [code |-> code, status |-> status]]

\* getEquipmentStatus up to its first read: equipmentRepository.findById
getStatusFind(id, ok) ==
  /\ api.query.pc = "idle"
  /\ api.requests < MaxRequests
  /\ IF ~ok
     THEN /\ api' = [Answer(500, "none") EXCEPT !.requests = @ + 1]
          /\ failures' = failures + 1
     ELSE /\ IF id \notin DOMAIN equipment
             THEN api' = [Answer(404, "none") EXCEPT !.requests = @ + 1]
             ELSE api' = [api EXCEPT !.requests = @ + 1,
                                     !.query = [pc |-> "found", id |-> id,
                                                status |-> equipment[id].status]]
          /\ UNCHANGED failures
  /\ UNCHANGED <<jobs, sensorEvents, anomalies, equipment, now, responses, probe>>

\* getEquipmentStatus, its second read: checkOnlineStatus, and the test on it
getStatusCheck(ok) ==
  /\ api.query.pc = "found"
  /\ IF ~ok
     THEN /\ api' = Answer(500, "none")
          /\ failures' = failures + 1
     ELSE /\ IF /\ ~checkOnlineStatus(equipment, api.query.id, now)
                /\ api.query.status = "ONLINE"
             THEN api' = [api EXCEPT !.query.pc = "stale"]
             ELSE api' = Answer(200, api.query.status)
          /\ UNCHANGED failures
  /\ UNCHANGED <<jobs, sensorEvents, anomalies, equipment, now, responses, probe>>

\* getEquipmentStatus, its write: updateStatus(id, OFFLINE), and the answer
getStatusMark(ok) ==
  /\ api.query.pc = "stale"
  /\ IF ~ok
     THEN /\ api' = Answer(500, "none")
          /\ failures' = failures + 1
          /\ UNCHANGED equipment
     ELSE /\ equipment' = updateStatus(equipment, api.query.id, "OFFLINE", now)
          /\ api' = Answer(200, "OFFLINE")
          /\ UNCHANGED failures
  /\ UNCHANGED <<jobs, sensorEvents, anomalies, now, responses, probe>>

\* AnomalyRepository.resolve
resolve(rows, row, clock) ==
  (rows \ {row}) \cup {[row EXCEPT !.resolved = TRUE, !.resolvedAt = clock]}

\* The alert ids asked for: the alerts there are and one that does not exist
NoAlert ==
  [job |-> [sensor |-> [batch |-> 0, attempt |-> 0, add |-> 0], attempt |-> 0],
   attempt |-> 0]

AlertIds == {r.by : r \in anomalies} \cup {NoAlert}

\* resolveAlert: 404 without the alert, 400 for a resolved one, else resolve
resolveAlert(id, ok) ==
  /\ api.query.pc = "idle"
  /\ api.requests < MaxRequests
  /\ LET found == {r \in anomalies : r.by = id}
     IN IF ~ok
        THEN /\ api' = [Answer(500, "none") EXCEPT !.requests = @ + 1]
             /\ failures' = failures + 1
             /\ UNCHANGED anomalies
        ELSE /\ UNCHANGED failures
             /\ IF found = {}
                THEN /\ api' = [Answer(404, "none") EXCEPT !.requests = @ + 1]
                     /\ UNCHANGED anomalies
                ELSE \E r \in found :
                       IF r.resolved
                       THEN /\ api' = [Answer(400, "none") EXCEPT !.requests = @ + 1]
                            /\ UNCHANGED anomalies
                       ELSE /\ anomalies' = resolve(anomalies, r, now)
                            /\ api' = [Answer(200, "none") EXCEPT
                                         !.requests = @ + 1,
                                         !.resolved = @ \cup {id}]
  /\ UNCHANGED <<jobs, sensorEvents, equipment, now, responses, probe>>

\* Nothing arrives and nothing is asked for HeartbeatStaleSec seconds
Sleep ==
  /\ api.sleeps < MaxSleeps
  /\ api.query.pc = "idle"
  /\ \A q \in QueueNames : \A j \in JobIds(q) :
       jobs[q][j].state \in {"completed", "failed"}
  /\ now' = now + HeartbeatStaleSec
  /\ api' = [api EXCEPT !.sleeps = @ + 1]
  /\ UNCHANGED <<jobs, sensorEvents, anomalies, equipment, failures, responses, probe>>

\* No call of the detector on its own
NoProbe == [called |-> FALSE]

-----------------------------------------------------------------------------
(* The detector in floating point.  A number of the source is a double; here *)
(* it is a binary floating-point number of Precision significant bits and   *)
(* unbounded exponent, held as the fraction [num, den] it is equal to, and  *)
(* every operation rounds its exact result to the nearest such number, ties *)
(* to even.  The detector above is the same computation without rounding;  *)
(* on the windows of the pipeline, whole numbers whose Z-scores are far     *)
(* from every threshold, the two judge alike.                               *)

\* Significant bits of a number (53 in a double)
Precision == 4

Zero == [num |-> 0, den |-> 1]

Whole(n) == [num |-> n, den |-> 1]

Neg(a) == [num |-> 0 - a.num, den |-> a.den]

LessThan(a, b) == a.num * b.den < b.num * a.den

\* The element of a set of one element: a value computed once
Once(S) == CHOOSE v \in S : TRUE

\* n / d for n >= 0 and d > 0, rounded to Precision significant bits
RECURSIVE RoundPos(_, _)
RoundPos(n, d) ==
  IF n = 0 THEN Zero
  ELSE IF n >= Pow2(Precision) * d
       THEN LET r == RoundPos(n, 2 * d) IN Frac(2 * r.num, r.den)
  ELSE IF n < Pow2(Precision - 1) * d
       THEN LET r == RoundPos(2 * n, d) IN Frac(r.num, 2 * r.den)
  ELSE LET m == n \div d
           rest == n % d
       IN IF 2 * rest > d \/ (2 * rest = d /\ m % 2 = 1) THEN Whole(m + 1) ELSE Whole(m)

\* The floating-point number nearest to the fraction q
Fl(q) == IF q.num < 0 THEN Neg(RoundPos(0 - q.num, q.den)) ELSE RoundPos(q.num, q.den)

\* a + b, a - b, a * b and a / b of doubles
FlAdd(a, b) == Fl(Frac(a.num * b.den + b.num * a.den, a.den * b.den))

FlSub(a, b) == Fl(Frac(a.num * b.den - b.num * a.den, a.den * b.den))

FlMul(a, b) == Fl(Frac(a.num * b.num, a.den * b.den))

FlDiv(a, b) ==
  IF b.num > 0 THEN Fl(Frac(a.num * b.den, a.den * b.num))
  ELSE Fl(Frac(0 - a.num * b.den, a.den * (0 - b.num)))

\* The square root of n / d for n >= 0 and d > 0, rounded
RECURSIVE SqrtPos(_, _)
SqrtPos(n, d) ==
  IF n = 0 THEN Zero
  ELSE IF n >= Pow2(2 * Precision) * d
       THEN LET r == SqrtPos(n, 4 * d) IN Frac(2 * r.num, r.den)
  ELSE IF n < Pow2(2 * Precision - 2) * d
       THEN LET r == SqrtPos(4 * n, d) IN Frac(r.num, 2 * r.den)
  ELSE LET m == CHOOSE k \in Pow2(Precision - 1)..(Pow2(Precision) - 1) :
                  k * k * d <= n /\ n < (k + 1) * (k + 1) * d
           half == (2 * m + 1) * (2 * m + 1) * d      \* 4 * (m + 1/2)^2 * d
       IN IF 4 * n > half \/ (4 * n = half /\ m % 2 = 1) THEN Whole(m + 1) ELSE Whole(m)

\* Math.sqrt
FlSqrt(a) == SqrtPos(a.num, a.den)

\* Math.abs
FlAbs(a) == IF a.num < 0 THEN Neg(a) ELSE a

\* acc + values[lo] + ... + values[hi], added from left to right
RECURSIVE FlSumRange(_, _, _, _)
FlSumRange(values, lo, hi, acc) ==
  IF lo > hi THEN acc
  ELSE IF lo = hi THEN FlAdd(acc, values[lo])
  ELSE LET mid == (lo + hi) \div 2
       IN Once({FlSumRange(values, mid + 1, hi, left) :
                  left \in {FlSumRange(values, lo, mid, acc)}})

\* values.reduce((acc, val) => acc + val, 0) over the first n values
FlSum(values, n) == FlSumRange(values, 1, n, Zero)

\* StatisticalAnalyzer.calculateMean
calculateMeanFl(values) ==
  IF Len(values) = 0 THEN Zero
  ELSE FlDiv(FlSum(values, Len(values)), Whole(Len(values)))

\* A standard deviation of a sample: divisor N - 1
calculateSampleDeviationFl(values, mean) ==
  IF Len(values) <= 1 THEN Zero
  ELSE LET squaredDiffs == [i \in DOMAIN values |->
                              FlMul(FlSub(values[i], mean), FlSub(values[i], mean))]
           variance == FlDiv(FlSum(squaredDiffs, Len(values)), Whole(Len(values) - 1))
       IN FlSqrt(variance)

\* StatisticalAnalyzer.calculateStandardDeviation
calculateStandardDeviationFl(values, mean) ==
  IF Len(values) = 0 THEN Zero
  ELSE LET squaredDiffs == [i \in DOMAIN values |->
                              FlMul(FlSub(values[i], mean), FlSub(values[i], mean))]
           variance == FlDiv(FlSum(squaredDiffs, Len(values)), Whole(Len(values)))
       IN FlSqrt(variance)

\* StatisticalAnalyzer.calculateZScore
calculateZScoreFl(value, mean, stdDev) ==
  IF stdDev = Zero THEN Zero
  ELSE FlDiv(FlSub(value, mean), stdDev)

\* An outlier test that counts the threshold itself as outlying
isOutlierOrEqualFl(zScore, threshold) == ~LessThan(FlAbs(zScore), Whole(threshold))

\* StatisticalAnalyzer.isOutlier
isOutlierFl(zScore, threshold) == LessThan(Whole(threshold), FlAbs(zScore))

\* A classification that counts the band limits 4 and 5 into the upper band
classifySeverityInclusiveFl(zScore) ==
  IF ~LessThan(FlAbs(zScore), Whole(5)) THEN "CRITICAL"
  ELSE IF ~LessThan(FlAbs(zScore), Whole(4)) THEN "MEDIUM"
  ELSE "LOW"

\* A classification that leaves out Math.abs
classifySeveritySignedFl(zScore) ==
  IF LessThan(Whole(5), zScore) THEN "CRITICAL"
  ELSE IF LessThan(Whole(4), zScore) THEN "MEDIUM"
  ELSE "LOW"

\* SeverityClassifier.classifySeverity
classifySeverityFl(zScore) ==
  IF LessThan(Whole(5), FlAbs(zScore)) THEN "CRITICAL"
  ELSE IF LessThan(Whole(4), FlAbs(zScore)) THEN "MEDIUM"
  ELSE "LOW"

\* SeverityClassifier.generateDescription
generateDescriptionFl(sensorType, value, mean, zScore, unit) ==
  [kind |-> "deviation", sensorType |-> sensorType, value |-> value,
   direction |-> IF LessThan(mean, value) THEN "above" ELSE "below",
   absZScore |-> FlAbs(zScore), unit |-> unit, mean |-> mean]

\* A detect that judges whatever history it is given
detectAnyHistoryFl(threshold, minWindowSize, value, historicalValues, sensorType, unit) ==
  LET mean == Once({calculateMeanFl(historicalValues)})
      stdDev == Once({calculateStandardDeviationFl(historicalValues, mean)})
      zScore == Once({calculateZScoreFl(value, mean, stdDev)})
      isAnomaly == isOutlierFl(zScore, threshold)
  IN [isAnomaly |-> isAnomaly, zScore |-> zScore, mean |-> mean,
      stdDev |-> stdDev, threshold |-> threshold,
      severity |-> IF isAnomaly THEN classifySeverityFl(zScore) ELSE NoSeverity,
      description |-> IF isAnomaly
                      THEN generateDescriptionFl(sensorType, value, mean, zScore, unit)
                      ELSE [kind |-> "none"]]

\* AnomalyDetector.detect of a detector built with (threshold, minWindowSize)
detectFl(threshold, minWindowSize, value, historicalValues, sensorType, unit) ==
  IF Len(historicalValues) < minWindowSize
  THEN [isAnomaly |-> FALSE, zScore |-> Zero, mean |-> Zero, stdDev |-> Zero,
        threshold |-> threshold, severity |-> NoSeverity,
        description |-> [kind |-> "insufficient", have |-> Len(historicalValues),
                         required |-> minWindowSize]]
  ELSE LET mean == Once({calculateMeanFl(historicalValues)})
           stdDev == Once({calculateStandardDeviationFl(historicalValues, mean)})
           zScore == Once({calculateZScoreFl(value, mean, stdDev)})
           isAnomaly == isOutlierFl(zScore, threshold)
       IN [isAnomaly |-> isAnomaly, zScore |-> zScore, mean |-> mean,
           stdDev |-> stdDev, threshold |-> threshold,
           severity |-> IF isAnomaly THEN classifySeverityFl(zScore) ELSE NoSeverity,
           description |-> IF isAnomaly
                           THEN generateDescriptionFl(sensorType, value, mean, zScore, unit)
                           ELSE [kind |-> "none"]]

\* The detector's defaults: constructor(threshold = 3, minWindowSize = 30), and
\* the window size the process-wide instance is built with when the
\* environment sets none: Number(process.env.ROLLING_WINDOW_SIZE) || 100
DefaultMinWindowSize == 30
DefaultRollingWindowSize == 100

\* The process-wide instance under the default configuration:
\* new AnomalyDetector(3, 100), its second argument the minimum window size
DefaultDetector ==
  [threshold |-> AnomalyThresholdSigma, minWindowSize |-> DefaultRollingWindowSize]

\* The longest of the short histories, and the whole numbers in them
MaxHistory == 3
HistoryValues == {0, 2, 7}
ProbeValues == {0, 4, 5, 7, 9}

\* A history of n readings that alternate between two values
LongHistory(n) == [i \in 1..n |-> Whole(IF i % 2 = 0 THEN 2 ELSE 0)]

Histories ==
  SeqsUpTo({Whole(x) : x \in HistoryValues}, MaxHistory)
    \cup {LongHistory(DefaultMinWindowSize), LongHistory(DefaultRollingWindowSize)}

\* The detectors called: small ones of every threshold up to the configured
\* one, and the default instance
Detectors ==
  {[threshold |-> t, minWindowSize |-> m] : t \in 1..AnomalyThresholdSigma, m \in 1..MaxHistory}
    \cup {DefaultDetector}

\* A call of detect about to be made
DetectInit ==
  /\ jobs = [q \in QueueNames |-> <<>>]
  /\ sensorEvents = {}
  /\ anomalies = {}
  /\ equipment = [e \in EquipmentIds |-> EquipmentRow(e, "ONLINE", 0)]
  /\ now = 0
  /\ failures = 0
  /\ responses = <<>>
  /\ api = NoApi
  /\ \E detector \in Detectors, value \in ProbeValues, history \in Histories :
       probe = [called |-> FALSE, detector |-> detector, value |-> Whole(value),
                history |-> history, result |-> NoResult]

\* anomalyDetector.detect(value, historicalValues, sensorType, unit)
CallDetect ==
  /\ ~probe.called
  /\ probe' = [probe EXCEPT
                 !.called = TRUE,
                 !.result = detectFl(probe.detector.threshold, probe.detector.minWindowSize,
                                     probe.value, probe.history, "TEMPERATURE", "celsius")]
  /\ UNCHANGED <<jobs, sensorEvents, anomalies, equipment, now, failures, responses, api>>

DetectSpec == DetectInit /\ [][CallDetect]_vars

\* The z-scores classified: the halves from -MaxHalves/2 to MaxHalves/2
MaxHalves == 12
ZScores == {Frac(k, 2) : k \in (0 - MaxHalves)..MaxHalves}

\* Two calls of classifySeverity about to be made
SeverityInit ==
  /\ jobs = [q \in QueueNames |-> <<>>]
  /\ sensorEvents = {}
  /\ anomalies = {}
  /\ equipment = [e \in EquipmentIds |-> EquipmentRow(e, "ONLINE", 0)]
  /\ now = 0
  /\ failures = 0
  /\ responses = <<>>
  /\ api = NoApi
  /\ \E z1 \in ZScores, z2 \in ZScores :
       probe = [called |-> FALSE, z1 |-> z1, z2 |-> z2,
                s1 |-> NoSeverity, s2 |-> NoSeverity]

\* SeverityClassifier.classifySeverity(z1); SeverityClassifier.classifySeverity(z2)
CallClassify ==
  /\ ~probe.called
  /\ probe' = [probe EXCEPT !.called = TRUE,
                            !.s1 = classifySeverityFl(probe.z1),
                            !.s2 = classifySeverityFl(probe.z2)]
  /\ UNCHANGED <<jobs, sensorEvents, anomalies, equipment, now, failures, responses, api>>

SeveritySpec == SeverityInit /\ [][CallClassify]_vars

\* The orders in which the values of a history can be handed to detect
Occurrences(values, v) == Cardinality({i \in DOMAIN values : values[i] = v})
Reorderings(values) ==
  {other \in [DOMAIN values -> Range(values)] :
     \A v \in Range(values) : Occurrences(other, v) = Occurrences(values, v)}

\* Two calls of detect about to be made, on a history and on a reordering of it
PermuteInit ==
  /\ jobs = [q \in QueueNames |-> <<>>]
  /\ sensorEvents = {}
  /\ anomalies = {}
  /\ equipment = [e \in EquipmentIds |-> EquipmentRow(e, "ONLINE", 0)]
  /\ now = 0
  /\ failures = 0
  /\ responses = <<>>
  /\ api = NoApi
  /\ \E detector \in Detectors \ {DefaultDetector}, value \in ProbeValues,
        history \in {h \in Histories : Len(h) <= MaxHistory} :
       \E reordered \in Reorderings(history) :
         probe = [called |-> FALSE, detector |-> detector, value |-> Whole(value),
                  history |-> history, reordered |-> reordered,
                  result |-> NoResult, resultReordered |-> NoResult]

\* anomalyDetector.detect(value, history, ...); anomalyDetector.detect(value, reordered, ...)
CallDetectTwice ==
  /\ ~probe.called
  /\ probe' = [probe EXCEPT
                 !.called = TRUE,
                 !.result = detectFl(probe.detector.threshold, probe.detector.minWindowSize,
                                     probe.value, probe.history, "TEMPERATURE", "celsius"),
                 !.resultReordered =
                    detectFl(probe.detector.threshold, probe.detector.minWindowSize,
                             probe.value, probe.reordered, "TEMPERATURE", "celsius")]
  /\ UNCHANGED <<jobs, sensorEvents, anomalies, equipment, now, failures, responses, api>>

PermuteSpec == PermuteInit /\ [][CallDetectTwice]_vars

\* Queues under load: one queue holds one job more than its workers' ceiling,
\* the others hold one job each
QueueLoad(q, loaded) == IF q = loaded THEN Concurrency(q) + 1 ELSE 1

BrokerInit ==
  /\ \E loaded \in QueueNames :
       jobs = [q \in QueueNames |->
                 [i \in 1..QueueLoad(q, loaded) |->
                    NewJob([equipmentId |-> "e1"], [batch |-> 1, pos |-> i])]]
  /\ sensorEvents = {}
  /\ anomalies = {}
  /\ equipment = [e \in EquipmentIds |-> EquipmentRow(e, "ONLINE", 0)]
  /\ now = 0
  /\ failures = 0
  /\ responses = <<>>
  /\ api = NoApi
  /\ probe = NoProbe

\* Jobs of equal priority are taken in the order they were added
TakeNext(q, j) ==
  /\ \A i \in JobIds(q) : jobs[q][i].state = "waiting" => j <= i
  /\ Activate(q, j)

\* The handler of an active job returns
HandlerReturns(q, j) ==
  /\ jobs[q][j].state = "active"
  /\ jobs' = [jobs EXCEPT ![q][j] = MoveToCompleted(@)]
  /\ UNCHANGED <<sensorEvents, anomalies, equipment, now, failures, responses, api, probe>>

BrokerNext ==
  \/ \E q \in QueueNames : \E j \in JobIds(q) : TakeNext(q, j)
  \/ \E q \in QueueNames : \E j \in JobIds(q) : HandlerReturns(q, j)

BrokerSpec == BrokerInit /\ [][BrokerNext]_vars

-----------------------------------------------------------------------------
(* Concurrent resolve requests (api/alerts.controller.ts, resolveAlert).    *)
(* resolveAlert above serves one request at a time; here several clients   *)
(* are served at once and a request's two awaits are steps of their own.   *)

\* The clients, the requests each of them makes, and the seconds that pass
ResolveClients == {"c1", "c2"}
MaxResolveRequests == 2
MaxResolveTime == 2

\* An alert recorded before the run
RecordedAlert(i) == [job |-> [sensor |-> [batch |-> 0, attempt |-> 0, add |-> i],
                              attempt |-> 1],
                     attempt |-> 1]

RecordedDetection ==
  [isAnomaly |-> TRUE, zScore |-> [sign |-> 1, sqNum |-> 10, sqDen |-> 1],
   mean |-> [num |-> 10, den |-> 11], stdDev |-> [num |-> 1000, den |-> 121],
   threshold |-> AnomalyThresholdSigma, severity |-> "LOW",
   description |-> [kind |-> "none"]]

\* No request of client c in flight
NoResolve == [pc |-> "idle", id |-> NoAlert, code |-> 0, requests |-> 0]

ResolveInit ==
  /\ jobs = [q \in QueueNames |-> <<>>]
  /\ sensorEvents = {}
  /\ anomalies = recordAnomaly(
                   recordAnomaly({}, "e1", "TEMPERATURE", 10, RecordedDetection, 0,
                                 RecordedAlert(1)),
                   "e1", "TEMPERATURE", 10, RecordedDetection, 0, RecordedAlert(2))
  /\ equipment = [e \in EquipmentIds |->
                    EquipmentRow(e, IF e = "e1" THEN "ANOMALY" ELSE "ONLINE", 0)]
  /\ now = 0
  /\ failures = 0
  /\ responses = <<>>
  /\ api = [c \in ResolveClients |-> NoResolve]
  /\ probe = NoProbe

\* The request of client c is answered
ResolveAnswer(c, code) == [api EXCEPT ![c].pc = "idle", ![c].code = code]

\* resolveAlert up to its first await: anomalyRepository.findById, and the
\* tests on the row it returned
resolveAlertFind(c, id, ok) ==
  /\ api[c].pc = "idle"
  /\ api[c].requests < MaxResolveRequests
  /\ LET found == {r \in anomalies : r.by = id}
         asked == [api EXCEPT ![c].requests = @ + 1, ![c].id = id]
     IN IF ~ok
        THEN /\ api' = [asked EXCEPT ![c].code = 500]
             /\ failures' = failures + 1
        ELSE /\ UNCHANGED failures
             /\ IF found = {}
                THEN api' = [asked EXCEPT ![c].code = 404]
                ELSE \E r \in found :
                       IF r.resolved
                       THEN api' = [asked EXCEPT ![c].code = 400]
                       ELSE api' = [asked EXCEPT ![c].pc = "found", ![c].code = 0]
  /\ UNCHANGED <<jobs, sensorEvents, anomalies, equipment, now, responses, probe>>

\* resolveAlert from its second await: anomalyRepository.resolve(id), an
\* update where {id} whatever the row holds by now, and the answer
resolveAlertWrite(c, ok) ==
  /\ api[c].pc = "found"
  /\ IF ~ok
     THEN /\ api' = ResolveAnswer(c, 500)
          /\ failures' = failures + 1
          /\ UNCHANGED anomalies
     ELSE /\ \E r \in {x \in anomalies : x.by = api[c].id} :
               anomalies' = resolve(anomalies, r, now)
          /\ api' = ResolveAnswer(c, 200)
          /\ UNCHANGED failures
  /\ UNCHANGED <<jobs, sensorEvents, equipment, now, responses, probe>>

\* A second passes
ResolveTick ==
  /\ now < MaxResolveTime
  /\ now' = now + 1
  /\ UNCHANGED <<jobs, sensorEvents, anomalies, equipment, failures, responses, api, probe>>

ResolveNext ==
  \/ \E c \in ResolveClients, id \in AlertIds, ok \in BOOLEAN : resolveAlertFind(c, id, ok)
  \/ \E c \in ResolveClients, ok \in BOOLEAN : resolveAlertWrite(c, ok)
  \/ ResolveTick

ResolveSpec == ResolveInit /\ [][ResolveNext]_vars

-----------------------------------------------------------------------------
(* The system *)

Init ==
  /\ jobs = [q \in QueueNames |-> <<>>]
  /\ sensorEvents = Baseline(RollingWindowSize)
  /\ anomalies = {}
  /\ \E st \in InitialStatus :
       equipment = [e \in EquipmentIds |->
                      EquipmentRow(e, IF e = "e1" THEN st ELSE "MAINTENANCE", 0)]
  /\ now = 0
  /\ failures = 0
  /\ responses = <<>>
  /\ api = NoApi
  /\ probe = NoProbe

\* Readings accepted so far
Accepted == SeqSum([i \in DOMAIN responses |-> responses[i].accepted])

\* Whether k more store or broker calls may fail: the failures explored shrink
\* with the load, a run over n readings sees at most MaxFailures \div n of them
MayFail(k, load) == (failures + k) * load <= MaxFailures

\* The outcomes open to one more store or broker call
Outcomes == IF MayFail(1, Accepted) THEN BOOLEAN ELSE {TRUE}

\* The adds of one Stage-1 attempt that may be rejected together
Rejections(j) ==
  {R \in SUBSET (DOMAIN jobs[BATCH][j].data.readings) : R = {} \/ MayFail(Cardinality(R), Accepted)}

Next ==
  \/ \E readings \in Batches :
       \E ok \in {TRUE} \cup {o \in {FALSE} : MayFail(1, Len(readings))} :
         ingestSensorData(readings, ok)
  \/ \E q \in QueueNames : \E j \in JobIds(q) : Activate(q, j)
  \/ \E q \in QueueNames : \E j \in JobIds(q) : Promote(q, j)
  \/ \E j \in JobIds(BATCH) : \E rejected \in Rejections(j) :
       processBatchSensorData(j, rejected)
  \/ \E j \in JobIds(SENSOR), ok \in Outcomes : S2Create(j, ok)
  \/ \E j \in JobIds(SENSOR), ok \in Outcomes : S2Heartbeat(j, ok)
  \/ \E j \in JobIds(SENSOR), ok \in Outcomes : S2Enqueue(j, ok)
  \/ \E j \in JobIds(DETECT), ok \in Outcomes : S3Detect(j, ok)
  \/ \E j \in JobIds(DETECT), ok \in Outcomes : S3Record(j, ok)
  \/ \E j \in JobIds(DETECT), ok \in Outcomes : S3Status(j, ok)
  \/ Tick

Spec == Init /\ [][Next]_vars

\* The pipeline with the status and alert endpoints, from every status; an
\* equipment that starts OFFLINE was last heard of too long ago
StatusInit ==
  /\ jobs = [q \in QueueNames |-> <<>>]
  /\ sensorEvents = Baseline(RollingWindowSize)
  /\ anomalies = {}
  /\ \E st \in EquipmentStatus :
       equipment = [e \in EquipmentIds |->
                      EquipmentRow(e, IF e = "e1" THEN st ELSE "MAINTENANCE",
                                   IF e = "e1" /\ st = "OFFLINE"
                                   THEN 0 - HeartbeatStaleSec - 1 ELSE 0)]
  /\ now = 0
  /\ failures = 0
  /\ responses = <<>>
  /\ api = NoApi
  /\ probe = NoProbe

StatusNext ==
  \/ \E readings \in {b \in Batches : Len(b) = 1} :
       \E ok \in {TRUE} \cup {o \in {FALSE} : MayFail(1, Len(readings))} :
         ingestSensorData(readings, ok)
  \/ \E q \in QueueNames : \E j \in JobIds(q) : Activate(q, j)
  \/ \E q \in QueueNames : \E j \in JobIds(q) : Promote(q, j)
  \/ \E j \in JobIds(BATCH) : \E rejected \in Rejections(j) :
       processBatchSensorData(j, rejected)
  \/ \E j \in JobIds(SENSOR), ok \in Outcomes : S2Create(j, ok)
  \/ \E j \in JobIds(SENSOR), ok \in Outcomes : S2Heartbeat(j, ok)
  \/ \E j \in JobIds(SENSOR), ok \in Outcomes : S2Enqueue(j, ok)
  \/ \E j \in JobIds(DETECT), ok \in Outcomes : S3Detect(j, ok)
  \/ \E j \in JobIds(DETECT), ok \in Outcomes : S3Record(j, ok)
  \/ \E j \in JobIds(DETECT), ok \in Outcomes : S3Status(j, ok)
  \/ Tick
  \/ Sleep
  \/ \E id \in QueryIds, ok \in Outcomes : getStatusFind(id, ok)
  \/ \E ok \in Outcomes : getStatusCheck(ok)
  \/ \E ok \in Outcomes : getStatusMark(ok)
  \/ \E id \in AlertIds, ok \in Outcomes : resolveAlert(id, ok)

StatusSpec == StatusInit /\ [][StatusNext]_vars

\* The workers keep taking the work there is, and time passes
WorkerStep ==
  \/ \E q \in QueueNames : \E j \in JobIds(q) : Activate(q, j) \/ Promote(q, j)
  \/ \E j \in JobIds(BATCH) : processBatchSensorData(j, {})
  \/ \E j \in JobIds(SENSOR) :
       S2Create(j, TRUE) \/ S2Heartbeat(j, TRUE) \/ S2Enqueue(j, TRUE)
  \/ \E j \in JobIds(DETECT) : S3Record(j, TRUE) \/ S3Status(j, TRUE)

\* A detection is due: a detection run is enabled exactly then
DetectionDue ==
  \E j \in JobIds(DETECT) : jobs[DETECT][j].state = "active" /\ jobs[DETECT][j].step = 1

\* A due detection can run: the store answers the window query
DetectionCanRun ==
  \A j \in JobIds(DETECT) :
    RollingWindows(sensorEvents, jobs[DETECT][j].data.equipmentId,
                   jobs[DETECT][j].data.sensorType, RollingWindowSize) # {}

\* Weak fairness of the detection run, its enabling condition written out
FairDetection ==
  []<>(~DetectionDue) \/ []<><<\E j \in JobIds(DETECT) : S3Detect(j, TRUE)>>_vars

FairSpec == Spec /\ WF_vars(WorkerStep) /\ WF_vars(Tick) /\ FairDetection

-----------------------------------------------------------------------------
(* Properties *)

Job(q, j) == jobs[q][j]

Settled(job) == job.state \in {"completed", "failed"}

\* Every job of every queue has run and is completed or failed for good
AllSettled ==
  \A q \in QueueNames : \A j \in JobIds(q) :
    Settled(Job(q, j)) /\ Job(q, j).attemptsMade >= 1

SameReading(a, b) ==
  /\ a.equipmentId = b.equipmentId
  /\ a.sensorType = b.sensorType
  /\ a.value = b.value
  /\ a.unit = b.unit
  /\ a.timestamp = b.timestamp

\* The sensor-data jobs attempt `attempt` of batch job b added
AddedBySplit(b, attempt) ==
  {s \in JobIds(SENSOR) : s.batch = b /\ s.attempt = attempt}

\* The anomaly-detection jobs attempt `attempt` of sensor-data job s added
AddedByPersist(s, attempt) ==
  {d \in JobIds(DETECT) : d.sensor = s /\ d.attempt = attempt}

\* The rows written on behalf of the reading `origin`
EventsOf(origin) == {e \in sensorEvents : e.origin = origin}

\* C1: a completed Stage-1 attempt on N readings has added exactly N
\* sensor-data jobs, one for each reading, each with that reading's
\* equipmentId, sensorType, value, unit and timestamp.
C1_SplitAddsOnePerReading ==
  \A b \in JobIds(BATCH) :
    Job(BATCH, b).state = "completed" =>
      LET readings == Job(BATCH, b).data.readings
          added == AddedBySplit(b, Job(BATCH, b).attemptsMade)
      IN /\ Cardinality(added) = Len(readings)
         /\ \A p \in DOMAIN readings :
              LET forP == {s \in added : Job(SENSOR, s).origin.pos = p}
              IN /\ Cardinality(forP) = 1
                 /\ \A s \in forP : SameReading(Job(SENSOR, s).data, readings[p])

\* A batch of two readings split by a second attempt, after a first attempt
\* in which one add was rejected
C1_Witness ==
  \E b \in JobIds(BATCH) :
    /\ Job(BATCH, b).state = "completed"
    /\ Job(BATCH, b).attemptsMade = 2
    /\ Len(Job(BATCH, b).data.readings) = 2
    /\ Cardinality(AddedBySplit(b, 1)) = 1

\* C2: a completed Stage-2 attempt has added exactly one anomaly-detection
\* job, which carries the Stage-2 job's reading; an attempt that has not
\* completed (it failed, or has not reached the end) has added none.
C2_PersistAddsOneDetection ==
  \A s \in JobIds(SENSOR) : \A a \in 1..Attempts :
    LET added == AddedByPersist(s, a)
    IN IF Job(SENSOR, s).state = "completed" /\ Job(SENSOR, s).attemptsMade = a
       THEN /\ Cardinality(added) = 1
            /\ \A d \in added : SameReading(Job(DETECT, d).data, Job(SENSOR, s).data)
       ELSE added = {}

\* A Stage-2 job completed by its second attempt, the first having failed
C2_Witness ==
  \E s \in JobIds(SENSOR) :
    /\ Job(SENSOR, s).state = "completed"
    /\ Job(SENSOR, s).attemptsMade = 2
    /\ AddedByPersist(s, 1) = {}
    /\ AddedByPersist(s, 2) # {}

\* The row a Stage-2 attempt wrote
RowsBy(s, attempt) ==
  {e \in sensorEvents : e.by = [job |-> s, attempt |-> attempt]}

PersistedFor(data, rows) ==
  \E e \in rows :
    /\ e.equipmentId = data.equipmentId
    /\ e.sensorType = data.sensorType
    /\ e.measuredValue = data.value
    /\ e.time = data.timestamp

\* The order of the steps of one Stage-2 attempt, seen step by step
C3_StepOrder ==
  \A s \in JobIds(SENSOR) :
    LET job == Job(SENSOR, s)
        next == jobs'[SENSOR][s]
    IN job.state = "active" /\ next # job /\ ~next.stepFailed =>
         \/ /\ job.step = 1 /\ next.step = 2
            /\ RowsBy(s, job.attemptsMade) = {}
            /\ sensorEvents' # sensorEvents
            /\ equipment' = equipment /\ jobs'[DETECT] = jobs[DETECT]
         \/ /\ job.step = 2 /\ next.step = 3
            /\ RowsBy(s, job.attemptsMade) # {}
            /\ equipment'[job.data.equipmentId].lastHeartbeat = job.data.timestamp
            /\ sensorEvents' = sensorEvents /\ jobs'[DETECT] = jobs[DETECT]
         \/ /\ job.step = 3 /\ next.state = "completed"
            /\ RowsBy(s, job.attemptsMade) # {}
            /\ jobs'[DETECT] # jobs[DETECT]
            /\ sensorEvents' = sensorEvents /\ equipment' = equipment

\* Every anomaly-detection job stems from a Stage-2 attempt that wrote its
\* SensorEvent and completed
C3_DetectionAfterPersist ==
  \A d \in JobIds(DETECT) :
    /\ d.sensor \in JobIds(SENSOR)
    /\ PersistedFor(Job(DETECT, d).data, RowsBy(d.sensor, d.attempt))
    /\ Job(SENSOR, d.sensor).state = "completed"
    /\ Job(SENSOR, d.sensor).attemptsMade = d.attempt

\* No detection has run for a reading without an anomaly-detection job
C3_NoDetectionWithoutEnqueue ==
  \A s \in JobIds(SENSOR) :
    Job(SENSOR, s).state # "completed" =>
      /\ \A a \in 1..Attempts : AddedByPersist(s, a) = {}
      /\ \A r \in anomalies : r.by.job.sensor # s

\* C3: in every Stage-2 attempt the SensorEvent write precedes the heartbeat
\* update, which precedes the Stage-3 enqueue; so every anomaly-detection job
\* and every detection run is preceded by the persisted SensorEvent of its
\* reading, and a reading with no successful enqueue is never analysed.
C3_WriteHeartbeatEnqueue ==
  /\ []C3_DetectionAfterPersist
  /\ []C3_NoDetectionWithoutEnqueue
  /\ [][C3_StepOrder]_vars

\* A detection has run for a reading whose Stage-2 job needed a retry, beside
\* which the rows of both attempts lie in the store
C3_Witness ==
  \E d \in JobIds(DETECT) :
    /\ Job(DETECT, d).detected
    /\ d.attempt = 2
    /\ RowsBy(d.sensor, 1) # {}
    /\ RowsBy(d.sensor, 2) # {}

\* The readings accepted so far, each named [batch, pos]
Submitted ==
  UNION {{[batch |-> b, pos |-> p] : p \in DOMAIN Job(BATCH, b).data.readings} :
           b \in JobIds(BATCH)}

ReadingOf(o) == Job(BATCH, o.batch).data.readings[o.pos]

\* The rows written on behalf of submitted readings
NewEvents == {e \in sensorEvents : e.origin.batch # 0}

\* The Anomaly rows recorded for the reading `origin`
AnomaliesOf(origin) ==
  {r \in anomalies : Job(DETECT, r.by.job).origin = origin}

\* The reading against the history established before the run
EstablishedWindow(reading) ==
  CHOOSE W \in RollingWindows(Baseline(RollingWindowSize), reading.equipmentId,
                              reading.sensorType, RollingWindowSize) : TRUE

IsAnomalousReading(reading) ==
  anomalyDetector_detect(reading.value, WindowValues(EstablishedWindow(reading)),
                         reading.sensorType, reading.unit).isAnomaly

AnomalousSubmitted == {o \in Submitted : IsAnomalousReading(ReadingOf(o))}

JudgedAnomalous(origin) ==
  {d \in JobIds(DETECT) : Job(DETECT, d).origin = origin /\ Job(DETECT, d).result.isAnomaly}

C4_Outcome ==
  /\ Cardinality(NewEvents) = Cardinality(Submitted)
  /\ \A o \in Submitted :
       /\ Cardinality(EventsOf(o)) = 1
       /\ \A e \in EventsOf(o) :
            /\ e.equipmentId = ReadingOf(o).equipmentId
            /\ e.sensorType = ReadingOf(o).sensorType
            /\ e.measuredValue = ReadingOf(o).value
            /\ e.time = ReadingOf(o).timestamp
       /\ Cardinality(AnomaliesOf(o)) <= 1
       /\ Cardinality(AnomaliesOf(o)) = Cardinality(JudgedAnomalous(o))

C5_NoTwoRowsOfOneReading ==
  \A e \in sensorEvents : \A f \in sensorEvents : e.origin = f.origin => e = f

\* The Stage-2 attempts started on behalf of the reading `origin`
AttemptsFor(origin) ==
  LET S == {s \in JobIds(SENSOR) : Job(SENSOR, s).origin = origin}
  IN SumOver(S, [s \in S |-> Job(SENSOR, s).attemptsMade])

\* C5 (amended): a submitted reading is persisted at most once by each
\* Stage-2 attempt made on its behalf, by nothing else, and exactly once
\* when no operation has failed and its Stage-2 job is past the write.
C5_OneRowPerPersistAttempt ==
  \A o \in Submitted :
    /\ Cardinality(EventsOf(o)) <= AttemptsFor(o)
    /\ \A e \in EventsOf(o) :
         /\ e.by.job \in JobIds(SENSOR)
         /\ Job(SENSOR, e.by.job).origin = o
         /\ e.by.attempt \in 1..Job(SENSOR, e.by.job).attemptsMade
    /\ failures = 0 => Cardinality(EventsOf(o)) <= 1

\* One reading persisted three times by the three attempts of its Stage-2 job
C5_Witness ==
  \E o \in Submitted :
    /\ Cardinality(EventsOf(o)) = 3
    /\ \E s \in JobIds(SENSOR) : \A e \in EventsOf(o) : e.by.job = s

\* What one step may do to a job
C6_Step(job, next) ==
  /\ next.attemptsMade # job.attemptsMade =>
       /\ job.state = "waiting" /\ next.state = "active"
       /\ next.attemptsMade = job.attemptsMade + 1
  /\ job.state = "failed" => next = job
  /\ job.state = "active" /\ next.state = "failed" => job.attemptsMade = 3
  /\ job.state = "active" /\ next.state = "delayed" =>
       \/ job.attemptsMade = 1 /\ next.processAt = now + 2
       \/ job.attemptsMade = 2 /\ next.processAt = now + 4
  /\ job.state = "delayed" /\ next.state # "delayed" =>
       next.state = "waiting" /\ now >= job.processAt

\* C6: every job is executed at most 3 times; its third failed attempt
\* leaves it failed for good, and after a failed first or second attempt it
\* runs again only once 2 s, then 4 s, have passed.
C6_AtMostThreeAttemptsWithBackoff ==
  /\ [](\A q \in QueueNames : \A j \in JobIds(q) : Job(q, j).attemptsMade <= 3)
  /\ [][\A q \in QueueNames : \A j \in JobIds(q) : C6_Step(Job(q, j), jobs'[q][j])]_vars

\* A job failed for good after three attempts, 2 s and 4 s apart
C6_Witness ==
  \E q \in QueueNames : \E j \in JobIds(q) :
    Job(q, j).state = "failed" /\ Job(q, j).attemptsMade = 3 /\ now >= 6

\* C7: under fair scheduling every enqueued job is executed and eventually
\* completed or failed for good, whatever becomes of the other jobs.
C7_EveryJobEventuallySettles == <>[]AllSettled

\* A job failed for good beside a completed job of the same queue
C7_Witness ==
  \E q \in QueueNames : \E j \in JobIds(q) : \E k \in JobIds(q) :
    /\ Job(q, j).state = "failed"
    /\ Job(q, k).state = "completed"

\* A step in which a store or broker call failed
C8_Step ==
  failures' > failures =>
    \/ /\ jobs' = jobs
       /\ Len(responses') = Len(responses) + 1
       /\ responses'[Len(responses')].status = 500
    \/ \E q \in QueueNames : \E j \in JobIds(q) :
         /\ Job(q, j).state = "active"
         /\ jobs'[q][j].state = IF Job(q, j).attemptsMade < 3 THEN "delayed" ELSE "failed"
         /\ \A k \in JobIds(q) \ {j} : jobs'[q][k] = Job(q, k)

\* C8: in each stage handler a failed store write, store read or enqueue
\* makes the attempt end as failed; no attempt in which a step failed is
\* reported completed.
C8_FailedStepFailsAttempt ==
  /\ [][C8_Step]_vars
  /\ [](\A q \in QueueNames : \A j \in JobIds(q) :
          Job(q, j).state = "completed" => ~Job(q, j).stepFailed)

\* An attempt has failed in each of the three stages
C8_Witness ==
  /\ \E j \in JobIds(BATCH) : Job(BATCH, j).attemptsMade >= 2
  /\ \E j \in JobIds(SENSOR) : Job(SENSOR, j).attemptsMade >= 2
  /\ \E j \in JobIds(DETECT) : Job(DETECT, j).state = "delayed"

\* The Anomaly rows attempt `attempt` of anomaly-detection job d wrote
RecordedBy(d, attempt) ==
  {r \in anomalies : r.by = [job |-> d, attempt |-> attempt]}

\* A detection run that does not find an anomaly
C9_Step ==
  \A d \in JobIds(DETECT) :
    LET job == Job(DETECT, d)
        next == jobs'[DETECT][d]
    IN job.state = "active" /\ job.step = 1 /\ next.detected /\ ~next.result.isAnomaly =>
         /\ next.state = "completed"
         /\ anomalies' = anomalies
         /\ equipment' = equipment

\* C9: a detection run whose result is not an anomaly, the insufficient-data
\* result included, creates no Anomaly row and leaves the equipment's status
\* and lastHeartbeat as they were.
C9_NoAnomalyNoEffect ==
  /\ [][C9_Step]_vars
  /\ [](\A d \in JobIds(DETECT) :
          Job(DETECT, d).state = "completed" /\ ~Job(DETECT, d).result.isAnomaly =>
            RecordedBy(d, Job(DETECT, d).attemptsMade) = {})

\* Two detection runs are over without an anomaly: one for want of data, one
\* on a full window
C9_Witness ==
  /\ \E d \in JobIds(DETECT) :
       /\ Job(DETECT, d).state = "completed"
       /\ Job(DETECT, d).result.description.kind = "insufficient"
  /\ \E d \in JobIds(DETECT) :
       /\ Job(DETECT, d).state = "completed"
       /\ Job(DETECT, d).result.description.kind = "none"
  /\ anomalies = {}

\* The steps of a detection run that found an anomaly
C10_Step ==
  \A d \in JobIds(DETECT) :
    LET job == Job(DETECT, d)
        next == jobs'[DETECT][d]
        mine == RecordedBy(d, job.attemptsMade)
    IN /\ job.state = "active" /\ job.step = 2 /\ next.step = 3 =>
            /\ anomalies \subseteq anomalies'
            /\ Cardinality(anomalies') = Cardinality(anomalies) + 1
            /\ \A r \in anomalies' \ anomalies :
                 /\ r.equipmentId = job.data.equipmentId
                 /\ r.sensorType = job.data.sensorType
                 /\ r.detectedValue = job.data.value
                 /\ r.time = job.data.timestamp
                 /\ r.severity = job.result.severity
                 /\ ~r.resolved
       /\ job.state = "active" /\ next.state = "completed" /\ job.result.isAnomaly =>
            /\ job.step = 3
            /\ Cardinality(mine) = 1
            /\ anomalies' = anomalies
            /\ equipment'[job.data.equipmentId] =
                 [equipment[job.data.equipmentId] EXCEPT
                    !.status = "ANOMALY", !.lastHeartbeat = now]
            /\ \A e \in EquipmentIds \ {job.data.equipmentId} :
                 equipment'[e] = equipment[e]

\* C10: a detection run that finds an anomaly and completes has inserted
\* exactly one new Anomaly row, beside the rows there were, and has set the
\* equipment's status to ANOMALY and its lastHeartbeat to the current time.
C10_AnomalyRecordedOnce ==
  /\ [][C10_Step]_vars
  /\ [](\A d \in JobIds(DETECT) :
          Job(DETECT, d).state = "completed" /\ Job(DETECT, d).result.isAnomaly =>
            Cardinality(RecordedBy(d, Job(DETECT, d).attemptsMade)) = 1)

\* A completed anomalous detection, after time has passed, whose row lies
\* beside another unresolved row of the same equipment and sensor
C10_Witness ==
  \E d \in JobIds(DETECT) :
    /\ Job(DETECT, d).state = "completed"
    /\ Job(DETECT, d).result.isAnomaly
    /\ equipment[Job(DETECT, d).data.equipmentId].status = "ANOMALY"
    /\ now > 0
    /\ equipment[Job(DETECT, d).data.equipmentId].lastHeartbeat = now
    /\ \E r \in anomalies : \E t \in anomalies :
         /\ r # t
         /\ r.equipmentId = t.equipmentId /\ r.sensorType = t.sensorType
         /\ ~r.resolved /\ ~t.resolved

\* The Anomaly rows the attempts of anomaly-detection job d wrote
RowsOfDetection(d) == {r \in anomalies : r.by.job = d}

\* A Stage-3 step in which the Anomaly insert or the status update fails
C11_Step ==
  \A d \in JobIds(DETECT) :
    LET job == Job(DETECT, d)
        next == jobs'[DETECT][d]
    IN job.state = "active" /\ job.step \in {2, 3} /\ next # job /\ failures' > failures =>
         /\ next.state = IF job.attemptsMade < Attempts THEN "delayed" ELSE "failed"
         /\ next.stepFailed
         /\ sensorEvents' = sensorEvents
         /\ equipment' = equipment
         /\ anomalies' = anomalies
         /\ Cardinality(RecordedBy(d, job.attemptsMade)) = IF job.step = 3 THEN 1 ELSE 0

\* The start of an attempt of an anomaly-detection job
C11_Retry ==
  \A d \in JobIds(DETECT) :
    LET job == Job(DETECT, d)
        next == jobs'[DETECT][d]
    IN job.state # "active" /\ next.state = "active" =>
         /\ next.step = 1
         /\ ~next.detected
         /\ next.result = NoResult
         /\ next.attemptsMade = job.attemptsMade + 1

\* What the attempts of an anomaly-detection job leave in the Anomaly table:
\* at most one row per attempt, each a row of the job's reading
C11_Residue ==
  \A d \in JobIds(DETECT) :
    /\ \A r \in RowsOfDetection(d) :
         /\ r.by.attempt \in 1..Job(DETECT, d).attemptsMade
         /\ r.equipmentId = Job(DETECT, d).data.equipmentId
         /\ r.sensorType = Job(DETECT, d).data.sensorType
         /\ r.detectedValue = Job(DETECT, d).data.value
         /\ r.time = Job(DETECT, d).data.timestamp
    /\ \A a \in 1..Attempts : Cardinality(RecordedBy(d, a)) <= 1

\* C11: when the Anomaly insert or the status update of anomaly recording
\* fails, the Stage-3 attempt ends as failed and the job is retried from the
\* window fetch; the failed attempt leaves the store as it was but for the
\* Anomaly row it may have inserted, so that a retry leaves at worst a
\* duplicate Anomaly row of the same reading.
C11_FailedRecordingRetriesFromFetch ==
  /\ [][C11_Step /\ C11_Retry]_vars
  /\ []C11_Residue

\* A detection completed on its second attempt, after the status update of
\* the first attempt failed: two Anomaly rows of the one reading
C11_Witness ==
  \E d \in JobIds(DETECT) :
    /\ Job(DETECT, d).state = "completed"
    /\ Job(DETECT, d).attemptsMade = 2
    /\ RecordedBy(d, 1) # {}
    /\ RecordedBy(d, 2) # {}
    /\ equipment[Job(DETECT, d).data.equipmentId].status = "ANOMALY"

\* The resolved Anomaly rows
ResolvedAnomalies(rows) == {r \in rows : r.resolved \/ r.resolvedAt # NoTimestamp}

\* A step that executes no resolve request
C12_Step ==
  api'.resolved = api.resolved => ResolvedAnomalies(anomalies') = ResolvedAnomalies(anomalies)

\* C12: no pipeline stage sets an Anomaly's resolved flag or its resolvedAt;
\* an Anomaly is resolved only if a resolve request for that anomaly was
\* executed before.
C12_ResolvedOnlyByRequest ==
  /\ [][C12_Step]_vars
  /\ [](\A r \in anomalies :
          /\ r.resolved => r.by \in api.resolved
          /\ r.resolved <=> r.resolvedAt # NoTimestamp)

\* A resolved Anomaly beside an unresolved one the pipeline wrote
C12_Witness ==
  \E r \in anomalies : \E t \in anomalies :
    /\ r.resolved /\ r.by \in api.resolved
    /\ ~t.resolved

\* A step of a Stage-2 attempt
C13_Step ==
  \A s \in JobIds(SENSOR) :
    LET job == Job(SENSOR, s)
        next == jobs'[SENSOR][s]
        id == job.data.equipmentId
    IN job.state = "active" /\ next # job =>
         /\ DOMAIN equipment' = DOMAIN equipment
         /\ \A e \in DOMAIN equipment :
              /\ equipment'[e].status = equipment[e].status
              /\ e # id => equipment'[e] = equipment[e]
         /\ job.step = 2 /\ next.step = 3 =>
              equipment'[id].lastHeartbeat = job.data.timestamp
         /\ job.step # 2 \/ next.step # 3 => equipment' = equipment

\* C13: the heartbeat update of Stage 2 changes only the equipment's
\* lastHeartbeat and leaves its status as it was; an equipment in ANOMALY
\* stays in ANOMALY through every Stage-2 run.
C13_HeartbeatKeepsStatus == [][C13_Step]_vars

\* An equipment in ANOMALY whose heartbeat a completed Stage-2 run wrote
C13_Witness ==
  \E s \in JobIds(SENSOR) :
    /\ Job(SENSOR, s).state = "completed"
    /\ equipment[Job(SENSOR, s).data.equipmentId].status = "ANOMALY"
    /\ equipment[Job(SENSOR, s).data.equipmentId].lastHeartbeat = Job(SENSOR, s).data.timestamp
    /\ Job(SENSOR, s).data.timestamp # 0

\* The age of the last heartbeat of equipment e
HeartbeatAge(e) == now - equipment[e].lastHeartbeat

\* C14: in every reachable state an equipment whose status is neither
\* ANOMALY nor MAINTENANCE is ONLINE exactly when its lastHeartbeat is at
\* most 30 seconds old, and OFFLINE exactly when it is older.
C14_StatusFollowsHeartbeat ==
  \A e \in DOMAIN equipment :
    equipment[e].status \notin {"ANOMALY", "MAINTENANCE"} =>
      /\ equipment[e].status = "ONLINE" <=> HeartbeatAge(e) <= HeartbeatStaleSec
      /\ equipment[e].status = "OFFLINE" <=> HeartbeatAge(e) > HeartbeatStaleSec

\* C15: once a reading that is not anomalous has passed Stage 2 and Stage 3
\* for an equipment that is not in ANOMALY or MAINTENANCE, the equipment is
\* ONLINE while its heartbeat is recent.
C15_OnlineAfterNormalReading ==
  \A d \in JobIds(DETECT) :
    LET id == Job(DETECT, d).data.equipmentId
    IN /\ Job(DETECT, d).state = "completed"
       /\ Job(DETECT, d).detected
       /\ ~Job(DETECT, d).result.isAnomaly
       /\ equipment[id].status \notin {"ANOMALY", "MAINTENANCE"}
       /\ checkOnlineStatus(equipment, id, now)
       => equipment[id].status = "ONLINE"

\* A step that may touch an equipment in ANOMALY
C16_Step ==
  \A e \in DOMAIN equipment :
    equipment[e].status = "ANOMALY" => equipment'[e].status = "ANOMALY"

\* C16: once an equipment's status is ANOMALY no operation of the program, a
\* stage of the pipeline, a status query or the resolving of an anomaly,
\* changes it to another value.
C16_AnomalyIsKept == [][C16_Step]_vars

\* The call of the detector on its own
Called == probe.called

Enough == Len(probe.history) >= probe.detector.minWindowSize

\* C17: for every value and every history with fewer elements than the
\* detector's minimum window size, detect returns isAnomaly = false with
\* zScore 0, no severity and a description that reports insufficient data, so
\* that a Stage-3 run on such a window records no Anomaly.
C17_InsufficientHistoryIsNoAnomaly ==
  Called /\ ~Enough =>
    /\ probe.result.isAnomaly = FALSE
    /\ probe.result.zScore = Zero
    /\ probe.result.severity = NoSeverity
    /\ probe.result.description =
         [kind |-> "insufficient", have |-> Len(probe.history),
          required |-> probe.detector.minWindowSize]
    /\ ~ShouldRecord(probe.result)

\* A call with one value too few in the history, of a value the detector
\* would call an anomaly had it judged that history
C17_Witness ==
  /\ Called
  /\ Len(probe.history) = probe.detector.minWindowSize - 1
  /\ detectAnyHistoryFl(probe.detector.threshold, probe.detector.minWindowSize, probe.value,
                        probe.history, "TEMPERATURE", "celsius").isAnomaly
  /\ ~probe.result.isAnomaly

\* C18: under the default configuration the detector of the pipeline asks
\* for 30 historical samples at least while the rolling window holds up to
\* 100: a run whose window has between 30 and 99 samples evaluates the
\* Z-score and can record an anomaly.
C18_DetectsFromThirtySamples ==
  /\ Called
  /\ probe.detector = DefaultDetector
  /\ Len(probe.history) \in DefaultMinWindowSize..(DefaultRollingWindowSize - 1)
  => probe.result.description.kind # "insufficient"

\* All values of the history are equal
ConstantHistory == \A i \in DOMAIN probe.history : probe.history[i] = probe.history[1]

\* C19: calculateZScore(x, mean, 0) is 0 for every x and mean; hence when
\* all values of a history that is large enough are equal, detect returns
\* isAnomaly = false for every value, however far it is from the history.
C19_ConstantHistoryIsNoAnomaly ==
  /\ calculateZScoreFl(probe.value, calculateMeanFl(probe.history), Zero) = Zero
  /\ Called /\ Enough /\ ConstantHistory => ~probe.result.isAnomaly

\* The history in exact arithmetic, of n whole numbers: its sum S, and for
\* each value x the deviation x - S/n as the whole number n * x - S
HistoryLen == Len(probe.history)

HistoryValue(i) == probe.history[i].num

PartialSum(k) == SumOver(1..k, [i \in 1..k |-> HistoryValue(i)])

Deviation(i) == HistoryLen * HistoryValue(i) - PartialSum(HistoryLen)

\* The sum of the first k squared deviations, times n * n
SquaresSum(k) == SumOver(1..k, [i \in 1..k |-> Deviation(i) * Deviation(i)])

\* The deviation of the judged value from the mean, times n
ValueDeviation == HistoryLen * probe.value.num - PartialSum(HistoryLen)

\* |value - mean| > threshold * sigma, sigma the population standard
\* deviation: (value - mean)^2 > threshold^2 * (sum of squares / n)
BeyondThreshold ==
  ValueDeviation * ValueDeviation * HistoryLen >
    probe.detector.threshold * probe.detector.threshold * SquaresSum(HistoryLen)

\* C20, as stated: for a history of the minimum window size at least,
\* isAnomaly is true exactly when |value - mean| is strictly greater than
\* threshold times the population standard deviation of the history.
C20_AnomalyIffBeyondThreshold ==
  Called /\ Enough /\ HistoryLen <= MaxHistory =>
    (probe.result.isAnomaly <=> BeyondThreshold)

\* The fraction n / d is a floating-point number
Representable(n, d) == Fl(Frac(n, d)) = Frac(n, d)

\* The population variance of the history and its rounded square root
Variance == Frac(SquaresSum(HistoryLen), HistoryLen * HistoryLen * HistoryLen)

\* No operation of the call rounds: every sum, quotient, difference, square
\* and root of it is a floating-point number
ExactArithmetic ==
  /\ HistoryLen \in 1..MaxHistory
  /\ \A k \in 1..HistoryLen : Representable(PartialSum(k), 1)
  /\ Representable(PartialSum(HistoryLen), HistoryLen)
  /\ \A i \in 1..HistoryLen :
       /\ Representable(Deviation(i), HistoryLen)
       /\ Representable(Deviation(i) * Deviation(i), HistoryLen * HistoryLen)
  /\ \A k \in 1..HistoryLen : Representable(SquaresSum(k), HistoryLen * HistoryLen)
  /\ Representable(Variance.num, Variance.den)
  /\ LET root == FlSqrt(Variance)
     IN /\ root.num * root.num * Variance.den = Variance.num * root.den * root.den
        /\ Representable(ValueDeviation, HistoryLen)
        /\ root # Zero =>
             Representable(Abs(ValueDeviation) * root.den, HistoryLen * root.num)

\* C20: for a history of the minimum window size at least, isAnomaly is true
\* exactly when the Z-score detect computed, the rounded quotient of
\* value - mean and the standard deviation, is strictly greater than the
\* threshold in absolute value: a value whose Z-score is exactly the
\* threshold, or minus it, is not an anomaly, and no value is an anomaly when
\* the standard deviation detect computed is 0; where the arithmetic of the
\* call is exact, detect computes the mean and the population standard
\* deviation (divisor N) of the history, and isAnomaly is true exactly when
\* that deviation is not 0 and |value - mean| is strictly greater than
\* threshold times it.
C20_AnomalyBeyondThresholdOfDeviation ==
  Called /\ Enough =>
    /\ probe.result.isAnomaly <=>
         LessThan(Whole(probe.detector.threshold), FlAbs(probe.result.zScore))
    /\ probe.result.zScore =
         IF probe.result.stdDev = Zero THEN Zero
         ELSE FlDiv(FlSub(probe.value, probe.result.mean), probe.result.stdDev)
    /\ probe.result.stdDev = Zero => ~probe.result.isAnomaly
    /\ FlAbs(probe.result.zScore) = Whole(probe.detector.threshold) => ~probe.result.isAnomaly
    /\ ExactArithmetic =>
         /\ probe.result.mean = Frac(PartialSum(HistoryLen), HistoryLen)
         /\ probe.result.stdDev = FlSqrt(Variance)
         /\ probe.result.isAnomaly <=> (Variance # Zero /\ BeyondThreshold)

\* A call in exact arithmetic that finds an anomaly
C20_Witness ==
  /\ Called /\ Enough /\ ExactArithmetic
  /\ HistoryLen >= 2
  /\ probe.result.isAnomaly
  /\ probe.result.stdDev # Zero

-----------------------------------------------------------------------------
(* Severity classification *)

\* |a| <= |b| for two numbers of the floating-point model
AbsAtMost(a, b) == ~LessThan(FlAbs(b), FlAbs(a))

\* a < |z| <= b
InBand(z, a, b) == LessThan(Whole(a), FlAbs(z)) /\ AbsAtMost(z, Whole(b))

SeverityRank(s) == CASE s = "LOW" -> 1 [] s = "MEDIUM" -> 2 [] s = "CRITICAL" -> 3

\* C22: severity classification is monotonic in |z| (LOW < MEDIUM < CRITICAL)
\* and the same for z and -z
C22_MonotonicAndSymmetric ==
  Called =>
    /\ AbsAtMost(probe.z1, probe.z2) => SeverityRank(probe.s1) <= SeverityRank(probe.s2)
    /\ probe.z2 = Neg(probe.z1) => probe.s1 = probe.s2

\* A negative z-score beyond 5 and its positive counterpart are both CRITICAL,
\* which ranks above the LOW of a smaller one
C22_Witness ==
  /\ Called
  /\ LessThan(probe.z1, Neg(Whole(5)))
  /\ probe.z2 = Neg(probe.z1)
  /\ probe.s1 = "CRITICAL" /\ probe.s2 = "CRITICAL"

-----------------------------------------------------------------------------
(* Order of the history *)

\* C23: detect returns the same isAnomaly, mean, stdDev, zScore and severity
\* for two histories that are permutations of each other
C23_OrderOfHistoryIsIrrelevant ==
  Called =>
    /\ probe.result.isAnomaly = probe.resultReordered.isAnomaly
    /\ probe.result.mean = probe.resultReordered.mean
    /\ probe.result.stdDev = probe.resultReordered.stdDev
    /\ probe.result.zScore = probe.resultReordered.zScore
    /\ probe.result.severity = probe.resultReordered.severity

-----------------------------------------------------------------------------
(* The window of a detection run *)

\* The rows of one equipment and sensor type in a store
OfPair(events, d) ==
  {e \in events : e.equipmentId = d.equipmentId /\ e.sensorType = d.sensorType}

\* The sets of min(N, count) rows of the pair with the latest timestamps: all
\* rows after some cut time and as many of the rows at the cut time as fit
LatestOfPair(events, d) ==
  LET F == OfPair(events, d)
      n == IF Cardinality(F) < RollingWindowSize THEN Cardinality(F)
           ELSE RollingWindowSize
      After(t) == {f \in F : f.time > t}
      At(t) == {f \in F : f.time = t}
  IN IF F = {} THEN {{}}
     ELSE UNION {{After(t) \cup T : T \in {U \in SUBSET At(t) :
                                             Cardinality(After(t)) + Cardinality(U) = n}} :
                   t \in {f.time : f \in F}}

\* The detection runs that get their answer in this step
DetectingNow ==
  {j \in JobIds(DETECT) :
     /\ Job(DETECT, j).state = "active" /\ Job(DETECT, j).step = 1
     /\ jobs'[DETECT][j].detected}

\* C24: the answer of every Stage-3 run, first or retried, is the detector's
\* answer on a window taken from the store as it is when the run executes:
\* min(N, count) rows with the latest timestamps among those of the job's own
\* equipment and sensor type
C24_Step ==
  \A j \in DetectingNow :
    LET d == Job(DETECT, j).data
    IN \E W \in LatestOfPair(sensorEvents, d) :
         /\ Cardinality(W) <= RollingWindowSize
         /\ W \subseteq OfPair(sensorEvents, d)
         /\ jobs'[DETECT][j].result =
              anomalyDetector_detect(d.value, WindowValues(W), d.sensorType, d.unit)
C24_WindowIsLatestOfPair == [][C24_Step]_vars

\* A retried run has answered while the store holds more than N rows of its
\* pair, one of them written for another reading after the run was created,
\* and its answer is the one for the latest N of them
C24_Witness ==
  \E j \in JobIds(DETECT) :
    LET job == Job(DETECT, j)
        d == job.data
    IN /\ job.attemptsMade >= 2 /\ job.detected
       /\ Cardinality(OfPair(sensorEvents, d)) > RollingWindowSize
       /\ \E e \in OfPair(sensorEvents, d) : e.origin.batch # 0 /\ e.origin # job.origin
       /\ \E W \in LatestOfPair(sensorEvents, d) :
            job.result = anomalyDetector_detect(d.value, WindowValues(W), d.sensorType, d.unit)

\* C25: the window a Stage-3 run hands to the detector holds prior readings
\* only, never a SensorEvent of the reading judged in that run: the run's
\* answer is the detector's answer on a latest window without such a row
C25_Step ==
  \A j \in DetectingNow :
    LET d == Job(DETECT, j).data
    IN \E W \in LatestOfPair(sensorEvents, d) :
         /\ \A e \in W : e.origin # Job(DETECT, j).origin
         /\ jobs'[DETECT][j].result =
              anomalyDetector_detect(d.value, WindowValues(W), d.sensorType, d.unit)
C25_WindowExcludesJudgedReading == [][C25_Step]_vars

-----------------------------------------------------------------------------
(* Readings of one pair submitted together *)

\* The rows in the store written for other submitted readings of the pair of
\* detection job j
SiblingRows(j) ==
  {e \in OfPair(sensorEvents, Job(DETECT, j).data) :
     e.origin.batch # 0 /\ e.origin # Job(DETECT, j).origin}

\* C26: no ordering across readings: a Stage-3 run judges its reading against
\* whatever rows of sibling readings Stage 2 has written by the time it reads
\* the window, whether they were submitted before or after it and whether or
\* not their own detection has run
C26_Step ==
  \A j \in DetectingNow :
    LET d == Job(DETECT, j).data
    IN \E W \in LatestOfPair(sensorEvents, d) :
         /\ SiblingRows(j) \subseteq W
         /\ jobs'[DETECT][j].result =
              anomalyDetector_detect(d.value, WindowValues(W), d.sensorType, d.unit)
C26_WindowHoldsSiblingsWrittenSoFar == [][C26_Step]_vars

\* B, submitted after A with the same pair, has been detected twice: first on a
\* window without A's row, which made it an anomaly that was recorded, then on
\* a window with A's row, which did not; A's own detection has not completed
C26_Witness ==
  \E b \in JobIds(DETECT) :
    /\ Job(DETECT, b).origin.pos = 2
    /\ Job(DETECT, b).state = "completed"
    /\ Job(DETECT, b).attemptsMade = 2
    /\ ~Job(DETECT, b).result.isAnomaly
    /\ RecordedBy(b, 1) # {}
    /\ \E e \in SiblingRows(b) : e.origin.pos = 1
    /\ \A a \in JobIds(DETECT) :
         Job(DETECT, a).origin.pos = 1 => Job(DETECT, a).state # "completed"

\* B's detection has completed, as an anomaly, before A's Stage 2 has written
\* anything
C26_WitnessAlone ==
  \E b \in JobIds(DETECT) :
    /\ Job(DETECT, b).origin.pos = 2
    /\ Job(DETECT, b).state = "completed"
    /\ Job(DETECT, b).result.isAnomaly
    /\ SiblingRows(b) = {}

-----------------------------------------------------------------------------
(* Stage 2 run twice *)

\* The rows Stage-2 job s has written, and the Stage-3 jobs it has enqueued,
\* after the step
RowsOfSensorJob(s) == {e \in sensorEvents' : e.by.job = s}
DetectionsOfSensorJob(s) == {d \in DOMAIN jobs'[DETECT] : d.sensor = s}

\* Stage 2 has run twice on the reading of job s: an attempt that failed after
\* its write, and a second attempt that ran to the end
RanTwice(s) ==
  /\ jobs'[SENSOR][s].state = "completed"
  /\ jobs'[SENSOR][s].attemptsMade = 2
  /\ \E e \in RowsOfSensorJob(s) : e.by.attempt = 1

C27_Step ==
  /\ sensorEvents \subseteq sensorEvents'
  /\ \A s \in DOMAIN jobs'[SENSOR] :
       LET data == jobs'[SENSOR][s].data
       IN RanTwice(s) =>
            /\ Cardinality(RowsOfSensorJob(s)) = 2
            /\ \A e \in RowsOfSensorJob(s) :
                 /\ e.time = data.timestamp /\ e.measuredValue = data.value
                 /\ e.equipmentId = data.equipmentId /\ e.sensorType = data.sensorType
            /\ Cardinality(DetectionsOfSensorJob(s)) <= 2
  /\ \A s \in JobIds(SENSOR) :
       LET job == Job(SENSOR, s)
       IN job.state = "active" /\ job.step = 2 /\ jobs'[SENSOR][s].step = 3 =>
            equipment' = [equipment EXCEPT
                            ![job.data.equipmentId].lastHeartbeat = job.data.timestamp]

-----------------------------------------------------------------------------
(* Ingestion *)

\* The request of this step has been answered
Answered == Len(responses') = Len(responses) + 1

\* reading as the job holds it: every field as sent, the clock for a missing
\* timestamp
HeldAs(held, sent) ==
  /\ held.equipmentId = sent.equipmentId /\ held.sensorType = sent.sensorType
  /\ held.value = sent.value /\ held.unit = sent.unit
  /\ held.timestamp # NoTimestamp
  /\ held.timestamp = IF sent.timestamp = NoTimestamp THEN now ELSE sent.timestamp

C28_Step ==
  Answered =>
    LET answer == responses'[Len(responses')]
        added == DOMAIN jobs'[BATCH] \ DOMAIN jobs[BATCH]
    IN /\ responses' = Append(responses, answer)
       /\ \A q \in QueueNames : \A j \in JobIds(q) : jobs'[q][j] = jobs[q][j]
       /\ DOMAIN jobs'[SENSOR] = DOMAIN jobs[SENSOR]
       /\ DOMAIN jobs'[DETECT] = DOMAIN jobs[DETECT]
       /\ UNCHANGED <<sensorEvents, anomalies, equipment>>
       /\ answer.status \in {202, 500}
       /\ answer.status = 202 =>
            /\ added = {answer.jobId}
            /\ LET job == jobs'[BATCH][answer.jobId]
               IN /\ job.state = "waiting" /\ job.attemptsMade = 0
                  /\ answer.accepted = Len(job.data.readings)
                  /\ answer.accepted >= 1
                  /\ \E sent \in Batches :
                       /\ Len(sent) = Len(job.data.readings)
                       /\ \A i \in DOMAIN sent : HeldAs(job.data.readings[i], sent[i])
       /\ answer.status = 500 => added = {} /\ answer.accepted = 0

-----------------------------------------------------------------------------
(* Readings of an unknown equipment *)

\* The Stage-2 jobs whose reading names an equipment without a row
OfUnknownEquipment == {s \in JobIds(SENSOR) : Job(SENSOR, s).data.equipmentId \notin DOMAIN equipment}

\* C29: the Stage-2 job of a reading whose equipment has no row never gets
\* past the SensorEvent write: it never completes, is failed for good only
\* after all of its attempts, and no SensorEvent row, no equipment row and no
\* Stage-3 job ever exists for it
C29_UnknownEquipmentFailsInStage2 ==
  /\ DOMAIN equipment = EquipmentIds
  /\ \A s \in OfUnknownEquipment :
       LET job == Job(SENSOR, s)
       IN /\ job.state # "completed"
          /\ job.state = "active" => job.step = 1
          /\ job.state = "failed" => job.attemptsMade = Attempts
          /\ job.attemptsMade <= Attempts
          /\ \A e \in sensorEvents :
               e.by.job # s /\ e.equipmentId # job.data.equipmentId
          /\ \A d \in JobIds(DETECT) : d.sensor # s

\* The job of a reading of an unknown equipment has failed for good while the
\* other reading of its batch has been stored and detected
C29_Witness ==
  \E s \in OfUnknownEquipment : \E t \in JobIds(SENSOR) \ OfUnknownEquipment :
    /\ Job(SENSOR, s).state = "failed" /\ Job(SENSOR, s).attemptsMade = Attempts
    /\ s.batch = t.batch
    /\ Job(SENSOR, t).state = "completed"
    /\ \E e \in sensorEvents : e.by.job = t
    /\ equipment[Job(SENSOR, t).data.equipmentId].lastHeartbeat = Job(SENSOR, t).data.timestamp
    /\ \E d \in JobIds(DETECT) : d.sensor = t /\ Job(DETECT, d).state = "completed"

-----------------------------------------------------------------------------
(* The store under the pipeline *)

\* A Stage-2 run gets its heartbeat update done, or a Stage-3 run its status
\* update, in this step
EquipmentWriterSteps ==
  \/ \E s \in JobIds(SENSOR) :
       /\ Job(SENSOR, s).state = "active" /\ Job(SENSOR, s).step = 2
       /\ jobs'[SENSOR][s].step = 3
  \/ \E d \in JobIds(DETECT) :
       /\ Job(DETECT, d).state = "active" /\ Job(DETECT, d).step = 3
       /\ jobs'[DETECT][d].state = "completed"

C30_Step ==
  /\ sensorEvents \subseteq sensorEvents'
  /\ anomalies \subseteq anomalies'
  /\ Cardinality(sensorEvents) <= Cardinality(sensorEvents')
  /\ Cardinality(anomalies) <= Cardinality(anomalies')
  /\ DOMAIN equipment' = DOMAIN equipment
  /\ \A e \in DOMAIN equipment :
       /\ equipment'[e].name = equipment[e].name
       /\ equipment'[e].type = equipment[e].type
       /\ equipment'[e].location = equipment[e].location
  /\ equipment' # equipment => EquipmentWriterSteps

\* C30: the pipeline only appends to the store: every SensorEvent row and every
\* Anomaly row stays as it is once written, so their numbers never decrease; no
\* Equipment row is removed, and only Stage 2 and Stage 3 change one, in its
\* status and lastHeartbeat alone
C30_StoreIsAppendOnly == [][C30_Step]_vars

\* Both stages have written: rows were added to the history, an anomaly is
\* recorded and the equipment is in ANOMALY, its other fields as provisioned
C30_Witness ==
  /\ Baseline(RollingWindowSize) \subseteq sensorEvents
  /\ Cardinality(sensorEvents) >= Cardinality(Baseline(RollingWindowSize)) + 2
  /\ anomalies # {}
  /\ equipment["e1"] = EquipmentRow("e1", "ANOMALY", now)

-----------------------------------------------------------------------------
(* Creation of Anomaly rows *)

\* Row r is what the recording step of detection job d, active now, inserts
RecordedNowBy(r, d) ==
  LET job == Job(DETECT, d)
  IN /\ job.state = "active" /\ job.step = 2
     /\ jobs'[DETECT][d].step = 3
     /\ job.detected /\ job.result.isAnomaly
     /\ r.by = [job |-> d, attempt |-> job.attemptsMade]
     /\ r.equipmentId = job.data.equipmentId
     /\ r.sensorType = job.data.sensorType
     /\ r.detectedValue = job.data.value
     /\ r.time = job.data.timestamp
     /\ r.severity = job.result.severity /\ r.severity \in AnomalySeverity
     /\ r.threshold = job.result.threshold
     /\ r.zScore = job.result.zScore
     /\ ~r.resolved /\ r.resolvedAt = NoTimestamp

C31_Step ==
  /\ Cardinality(anomalies' \ anomalies) <= 1
  /\ \A r \in anomalies' \ anomalies : \E d \in JobIds(DETECT) : RecordedNowBy(r, d)

\* C31: an Anomaly row comes into being only in the recording step of a
\* Stage-3 run whose detection returned isAnomaly = true; it is unresolved, has
\* no resolvedAt, the equipment, sensor type, value and timestamp of the job
\* and the severity, threshold and zScore of the detection result
C31_AnomalyRowsComeFromDetections == [][C31_Step]_vars

\* A detection that found an anomaly has recorded it and completed
C31_Witness ==
  \E d \in JobIds(DETECT) : \E r \in anomalies :
    /\ Job(DETECT, d).state = "completed" /\ Job(DETECT, d).result.isAnomaly
    /\ r.by.job = d
    /\ r.zScore = Job(DETECT, d).result.zScore
    /\ r.detectedValue = 10 /\ ~r.resolved

-----------------------------------------------------------------------------
(* Retried batches *)

\* The Stage-2 jobs there are after the step for reading p of batch b, and those
\* among them that attempt a of the batch job added
SensorJobsOf(b, p) == {s \in DOMAIN jobs'[SENSOR] : s.batch = b /\ s.add = p}
SensorJobsOfAttempt(b, p, a) == {s \in SensorJobsOf(b, p) : s.attempt = a}

C32_Step ==
  /\ \A s \in JobIds(SENSOR) : s \in DOMAIN jobs'[SENSOR]
  /\ \A b \in DOMAIN jobs'[BATCH] :
       LET job == jobs'[BATCH][b]
       IN \A p \in DOMAIN job.data.readings :
            /\ \A s \in SensorJobsOf(b, p) : s.attempt \in 1..job.attemptsMade
            /\ \A a \in 1..job.attemptsMade :
                 Cardinality(SensorJobsOfAttempt(b, p, a)) <= 1
            /\ Cardinality(SensorJobsOf(b, p)) <= job.attemptsMade
            /\ job.state = "completed" =>
                 /\ Cardinality(SensorJobsOfAttempt(b, p, job.attemptsMade)) = 1
                 /\ Cardinality(SensorJobsOf(b, p)) >= 1
            /\ job.state \in {"delayed", "failed"} =>
                 \E q \in DOMAIN job.data.readings :
                   SensorJobsOfAttempt(b, q, job.attemptsMade) = {}

\* C32: a Stage-1 attempt in which an enqueue fails leaves the batch job failed
\* or waiting for a retry, and the retry adds a job for every reading again;
\* no Stage-2 job is ever withdrawn, so once the batch job has completed every
\* reading has at least one Stage-2 job and at most one per attempt made
C32_RetryFromScratch == [][C32_Step]_vars

\* A batch job completed on its second attempt: its first reading has two
\* Stage-2 jobs, its second, whose enqueue failed the first time, has one
C32_Witness ==
  \E b \in JobIds(BATCH) :
    /\ Job(BATCH, b).state = "completed" /\ Job(BATCH, b).attemptsMade = 2
    /\ Len(Job(BATCH, b).data.readings) = 2
    /\ Cardinality({s \in JobIds(SENSOR) : s.batch = b /\ s.add = 1}) = 2
    /\ Cardinality({s \in JobIds(SENSOR) : s.batch = b /\ s.add = 2}) = 1

-----------------------------------------------------------------------------
(* Worker ceilings *)

\* C33: at every moment at most 3 batch-sensor-data jobs, at most 10
\* sensor-data jobs and at most 5 anomaly-detection jobs are active, whatever
\* waits or runs in the other queues
C33_CeilingPerStage ==
  /\ Cardinality(ActiveJobs(BATCH)) <= 3
  /\ Cardinality(ActiveJobs(SENSOR)) <= 10
  /\ Cardinality(ActiveJobs(DETECT)) <= 5

\* sensor-data runs its 10 jobs with an eleventh waiting, while the other
\* stages run a job each
C33_Witness ==
  /\ Cardinality(ActiveJobs(SENSOR)) = 10
  /\ \E j \in JobIds(SENSOR) : jobs[SENSOR][j].state = "waiting"
  /\ Cardinality(ActiveJobs(BATCH)) = 1
  /\ Cardinality(ActiveJobs(DETECT)) = 1

-----------------------------------------------------------------------------
(* Job lifecycle *)

\* The move of a job from one state to the next is one the broker makes
Lifecycle(job, next) ==
  \/ next = job
  \/ job.state = "waiting" /\ next.state = "active"
       /\ next.attemptsMade = job.attemptsMade + 1
  \/ job.state = "active" /\ next.state = "active"
       /\ next.attemptsMade = job.attemptsMade
  \/ job.state = "active" /\ next.state = "completed"
       /\ next.attemptsMade = job.attemptsMade
  \/ job.state = "active" /\ next.state = "delayed"
       /\ next.attemptsMade = job.attemptsMade /\ job.attemptsMade < Attempts
  \/ job.state = "delayed" /\ next.state = "waiting"
       /\ next.attemptsMade = job.attemptsMade
  \/ job.state = "active" /\ next.state = "failed"
       /\ next.attemptsMade = job.attemptsMade /\ job.attemptsMade = Attempts

C34_Step ==
  \A q \in QueueNames :
    /\ \A j \in JobIds(q) :
         /\ j \in DOMAIN jobs'[q]
         /\ Lifecycle(Job(q, j), jobs'[q][j])
         /\ Settled(Job(q, j)) => jobs'[q][j] = Job(q, j)
    /\ \A j \in DOMAIN jobs'[q] \ JobIds(q) :
         jobs'[q][j].state = "waiting" /\ jobs'[q][j].attemptsMade = 0

-----------------------------------------------------------------------------
(* What the status query writes *)

\* A step of the status query
QueryStep == api.query.pc # "idle" /\ api'.query # api.query

\* C35: the status query changes an equipment only when its stored status is
\* ONLINE and its lastHeartbeat is 30 s old or older, and then sets the status
\* to OFFLINE; an equipment in ANOMALY, MAINTENANCE or OFFLINE, or with a
\* recent heartbeat, is left as it is by the query
C35_Step ==
  QueryStep /\ equipment' # equipment =>
    LET id == api.query.id
    IN /\ equipment[id].status = "ONLINE"
       /\ now - equipment[id].lastHeartbeat >= HeartbeatStaleSec
       /\ equipment'[id].status = "OFFLINE"
       /\ \A e \in DOMAIN equipment \ {id} : equipment'[e] = equipment[e]
C35_QueryMarksOnlyStaleOnline == [][C35_Step]_vars

-----------------------------------------------------------------------------
(* Status changes *)

\* C36: the only status changes ever made are from any status to ANOMALY and
\* from ONLINE to OFFLINE; nothing writes ONLINE or MAINTENANCE, so an OFFLINE
\* equipment stays OFFLINE until an anomaly makes it ANOMALY
C36_Step ==
  \A e \in DOMAIN equipment :
    equipment'[e].status # equipment[e].status =>
      \/ equipment'[e].status = "ANOMALY"
      \/ equipment[e].status = "ONLINE" /\ equipment'[e].status = "OFFLINE"
C36_OnlyToAnomalyOrOffline == [][C36_Step]_vars

-----------------------------------------------------------------------------
(* Direction of the heartbeat *)

\* C37: lastHeartbeat never moves backwards: after every step it is at least
\* as late as before
C37_Step ==
  \A e \in DOMAIN equipment :
    equipment'[e].lastHeartbeat >= equipment[e].lastHeartbeat
C37_HeartbeatNeverMovesBack == [][C37_Step]_vars

-----------------------------------------------------------------------------
(* Bounds on duplicates *)

\* The submitted readings: the positions of the accepted batches
SubmittedReadings ==
  UNION {{[batch |-> b, pos |-> p] : p \in DOMAIN Job(BATCH, b).data.readings} :
           b \in JobIds(BATCH)}

SensorJobsFor(o) == {s \in JobIds(SENSOR) : Job(SENSOR, s).origin = o}
DetectJobsFor(o) == {d \in JobIds(DETECT) : Job(DETECT, d).origin = o}
EventsFor(o) == {e \in sensorEvents : e.origin = o}
AnomaliesFor(o) == {r \in anomalies : \E d \in DetectJobsFor(o) : r.by.job = d}

-----------------------------------------------------------------------------
(* Anomaly rows and the ANOMALY status *)

AnomaliesOfEquipment(e) == {r \in anomalies : r.equipmentId = e}

\* C39: the Anomaly row is written before the status is set: an equipment the
\* pipeline has put into ANOMALY has at least one Anomaly row, and the step
\* that sets the status is taken by a run whose own row is already there
C39_Step ==
  \A e \in DOMAIN equipment :
    /\ equipment'[e].status = "ANOMALY" => AnomaliesOfEquipment(e) # {}
    /\ equipment[e].status # "ANOMALY" /\ equipment'[e].status = "ANOMALY" =>
         \E d \in JobIds(DETECT) :
           /\ Job(DETECT, d).state = "active" /\ Job(DETECT, d).step = 3
           /\ Job(DETECT, d).data.equipmentId = e
           /\ RecordedBy(d, Job(DETECT, d).attemptsMade) # {}
C39_RowBeforeStatus == [][C39_Step]_vars

\* A run whose status update failed left its row behind; its retry recorded a
\* second row and put the equipment into ANOMALY
C39_Witness ==
  \E d \in JobIds(DETECT) :
    /\ Job(DETECT, d).state = "completed" /\ Job(DETECT, d).attemptsMade = 2
    /\ RecordedBy(d, 1) # {} /\ RecordedBy(d, 2) # {}
    /\ equipment[Job(DETECT, d).data.equipmentId].status = "ANOMALY"

\* The converse fails: every job has ended, an unresolved Anomaly row exists
\* and the equipment is not in ANOMALY
C39_WitnessConverse ==
  /\ AllSettled
  /\ \E r \in anomalies : ~r.resolved /\ equipment[r.equipmentId].status # "ANOMALY"

-----------------------------------------------------------------------------
(* Resolving an anomaly *)

\* Client c gets its answer in this step
ResolveAnswered(c) == api'[c].pc = "idle" /\ api'[c].requests > 0 /\ api'[c] # api[c]

\* C40: an anomaly is resolved at most once: a request on an unresolved
\* anomaly sets resolved and resolvedAt and is answered 200, every later or
\* concurrent request on it is rejected with 400 and leaves resolvedAt as it
\* is, and no request changes another anomaly or the status of an equipment
C40_Step ==
  /\ equipment' = equipment
  /\ \A r \in anomalies :
       /\ r.resolved => r \in anomalies'
       /\ r \notin anomalies' =>
            /\ [r EXCEPT !.resolved = TRUE, !.resolvedAt = now] \in anomalies'
            /\ anomalies' \ anomalies = {[r EXCEPT !.resolved = TRUE, !.resolvedAt = now]}
            /\ anomalies \ anomalies' = {r}
  /\ \A c \in ResolveClients :
       ResolveAnswered(c) /\ api'[c].code = 200 =>
         \E r \in anomalies : r.by = api'[c].id /\ ~r.resolved
====
